---------------------------- MODULE Spec2Model ----------------------------
(***************************************************************************)
(* Model of the GloriaFood platform's ingestion and synchronisation core:  *)
(* OrdersService.processOrder and MenuService.syncMenu / getFullMenu /     *)
(* getCategories of src/gloriafood-platform/src/services/orders.ts over    *)
(* the D1 schema of src/gloriafood-platform/schema/migrations.sql and the  *)
(* KV cache.  Every awaited D1 / KV call is one atomic step, so concurrent  *)
(* invocations interleave between statements as Workers requests do.       *)
(*                                                                         *)
(* Store semantics assumed (Cloudflare D1): UNIQUE, NOT NULL and FOREIGN    *)
(* KEY constraints are enforced; AUTOINCREMENT ids are never reused;        *)
(* bind() rejects the JavaScript value undefined with a D1_TYPE_ERROR.      *)
(***************************************************************************)
EXTENDS Integers, Sequences, FiniteSets, TLC

VARIABLES
  db,      \* the D1 database: one field per table, each a sequence of rows in id order
  cache,   \* the KV namespace: the two keys 'dashboard:stats' and 'menu:full'
  pc,      \* per order-ingest invocation slot: the statement it executes next
  loc,     \* per slot: the locals of the running processOrder invocation
  hist,    \* history: the results of the last finished processOrder invocations, in order
  calls,   \* history: the number of processOrder invocations started
  faults,  \* the number of store failures injected so far
  mpc,     \* per sync trigger: where the running syncMenu invocation stands
  mloc,    \* per sync trigger: the locals of the running syncMenu invocation
  mhist,   \* history: the results of the finished syncMenu invocations, in order
  syncs,   \* history: the number of syncMenu invocations started (the logical clock)
  gw,      \* per order route (webhook, poll): where its running handler stands, and its locals
  ghist,   \* history: the finished invocations of the order routes, in order
  reader,  \* the getDashboardStats invocation in flight: where it stands, and what it computed
  mreader, \* the getFullMenu invocation in flight: where it stands, and what it has read
  now      \* the store's clock (CURRENT_TIMESTAMP, DATE('now')), in days

vars == <<db, cache, pc, loc, hist, calls, faults, mpc, mloc, mhist, syncs, gw, ghist, reader, mreader, now>>
orderVars == <<pc, loc, hist, calls, gw, ghist>>
\* the syncs, and with them the reads in flight and the clock
readVars == <<reader, mreader, now>>
menuVars == <<mpc, mloc, mhist, syncs, readVars>>

-----------------------------------------------------------------------------
(* Bounds of the model *)

\* processOrder invocations started in one sequential behaviour
MaxCalls == 3
\* processOrder invocations started in one concurrent behaviour
MaxRacing == 2
\* finished invocations the history variable keeps
HistLen == 2
\* injected store failures in one behaviour
MaxFaults == 1
\* syncMenu invocations started in one behaviour
MaxSyncs == 2

\* the two sources whose processOrder invocations may be in flight at once
Procs == {"push", "pull"}

-----------------------------------------------------------------------------
(* JavaScript values of optional payload fields, and what the code does    *)
(* with them: a || b, a ? 1 : 0, and D1's bind().                          *)

UNDEF == [t |-> "undefined"]
NULL == [t |-> "null"]
Num(n) == [t |-> "number", v |-> n]
Str(s) == [t |-> "string", v |-> s]
Bool(b) == [t |-> "boolean", v |-> b]
Arr(s) == [t |-> "array", v |-> s]
Obj(r) == [t |-> "object", v |-> r]

Falsy(x) ==
  \/ x.t \in {"undefined", "null"}
  \/ x = Num(0)
  \/ x = Str("")
  \/ x = Bool(FALSE)

\* a || b
JsOr(a, b) == IF Falsy(a) THEN b ELSE a

\* a ? 1 : 0
Flag(a) == IF Falsy(a) THEN 0 ELSE 1

\* D1PreparedStatement.bind accepts numbers, strings, booleans and null; it
\* throws on undefined
Bindable(x) == x.t # "undefined"

\* SQL: COALESCE(?, column)
Coalesce(x, col) == IF x = NULL THEN col ELSE x

\* the rows of a table, as a set
Rows(table) == {table[i] : i \in 1..Len(table)}

\* .first(): the row with the least id among the matching ones
First(rows) == CHOOSE r \in rows : \A q \in rows : r.id <= q.id


-----------------------------------------------------------------------------
(* Order payloads (GloriaFoodOrder).  Required fields of the type are plain *)
(* values, optional ones are JavaScript values that may be undefined.      *)

Burger == [name |-> "Burger", type |-> "item", total_item_price |-> 12, options |-> UNDEF]
Pizza == [name |-> "Pizza", type |-> "item", total_item_price |-> 9,
          options |-> Arr(<<[name |-> "Large", type |-> "size"]>>)]
Tip == [name |-> "Tip", type |-> "tip", total_item_price |-> 2, options |-> UNDEF]
DeliveryFee == [name |-> "Delivery", type |-> "delivery_fee", total_item_price |-> 3,
                options |-> Arr(<<>>)]

BaseOrder ==
  [id |-> 1, pos_system_id |-> UNDEF, type |-> "pickup",
   restaurant_key |-> "k1", restaurant_id |-> 1, restaurant_name |-> "R1",
   total_price |-> 12,
   pickup_payment |-> Str("CASH"), delivery_payment |-> UNDEF,
   client_id |-> UNDEF, user_id |-> UNDEF,
   client_first_name |-> UNDEF, client_last_name |-> UNDEF,
   client_email |-> UNDEF, client_phone |-> UNDEF,
   client_order_count |-> UNDEF, client_marketing_consent |-> UNDEF,
   client_address |-> UNDEF, client_address_parts |-> UNDEF,
   items |-> <<Burger>>,
   coupons |-> UNDEF, tax_list |-> UNDEF, billing_details |-> UNDEF]

\* the spec's scenario order: pickup, one item, no client, no pos-system id
OrderA == BaseOrder
\* the same external order id under another pos-system id
OrderB == [BaseOrder EXCEPT !.pos_system_id = Num(1)]
\* the dedup key of OrderA (pos-system id 0) with different content: a delivery
\* with a client, an address and the whole fan-out
OrderC ==
  [BaseOrder EXCEPT
     !.pos_system_id = Num(0), !.type = "delivery", !.total_price = 26,
     !.pickup_payment = UNDEF, !.delivery_payment = Str("ONLINE"),
     !.client_id = Num(7),
     !.client_first_name = Str("Ann"), !.client_last_name = Str("Lee"),
     !.client_email = Str("ann@x"), !.client_phone = Str("555"),
     !.client_order_count = Num(4), !.client_marketing_consent = Bool(TRUE),
     !.client_address = Str("1 Main St"),
     !.client_address_parts = Obj([full_address |-> Str("1 Main St")]),
     !.items = <<Pizza, Tip, DeliveryFee>>,
     !.coupons = Arr(<<"PROMO">>),
     !.tax_list = Arr(<<[type |-> "item"]>>),
     !.billing_details = Obj([type |-> Str("personal")])]
\* a later order of client 7 that supplies a phone and a first name but no
\* email and no last name (JSON null), and no marketing consent
OrderD ==
  [BaseOrder EXCEPT
     !.id = 2, !.type = "delivery", !.delivery_payment = Str("CARD"),
     !.user_id = Num(7),
     !.client_first_name = Str("Anna"), !.client_last_name = NULL,
     !.client_email = NULL, !.client_phone = Str("777"),
     !.client_order_count = Num(5),
     !.client_address = Str("1 Main St"),
     !.client_address_parts = Obj([full_address |-> UNDEF]),
     !.items = <<Burger, Tip>>]
\* an order of client 7 whose payload leaves the phone out altogether (undefined)
OrderE ==
  [BaseOrder EXCEPT !.id = 3, !.client_id = Num(7), !.client_email = Str("new@x"),
                    !.client_first_name = NULL, !.client_last_name = NULL]
\* an order of the same external restaurant under a new restaurant key, of a
\* client that has placed no order before
OrderF ==
  [BaseOrder EXCEPT !.id = 2, !.restaurant_key = "k2", !.client_id = Num(8),
                    !.client_email = Str("bob@x"), !.client_order_count = Num(0),
                    !.items = <<Burger, DeliveryFee>>]

Orders == {OrderA, OrderB, OrderC, OrderD, OrderE, OrderF}

\* faulty variant: an absent pos-system id defaults to 1
PosOfDefaultOne(order) == JsOr(order.pos_system_id, Num(1)).v

\* order.pos_system_id || 0
PosOf(order) == JsOr(order.pos_system_id, Num(0)).v

\* order.client_id || order.user_id
ClientGloriaFoodId(order) == JsOr(order.client_id, order.user_id)

\* parts.full_address || order.client_address
FullAddress(order) == JsOr(order.client_address_parts.v.full_address, order.client_address)

\* order.type === 'delivery' && order.client_address_parts
SavesAddress(order) == order.type = "delivery" /\ ~Falsy(order.client_address_parts)

\* order.type === 'delivery' ? order.delivery_payment : order.pickup_payment
PaymentMethod(order) ==
  IF order.type = "delivery" THEN order.delivery_payment ELSE order.pickup_payment

\* order.items.find(i => i.type === tag)?.total_item_price || 0
TaggedTotal(order, tag) ==
  LET idx == {i \in 1..Len(order.items) : order.items[i].type = tag}
  IN IF idx = {} THEN 0
     ELSE LET first == CHOOSE i \in idx : \A j \in idx : i <= j
          IN order.items[first].total_item_price

\* faulty variant: the tip is taken from the line item tagged delivery_fee
TipAmountOfDeliveryFee(order) == TaggedTotal(order, "delivery_fee")

TipAmount(order) == TaggedTotal(order, "tip")
DeliveryFeeOf(order) == TaggedTotal(order, "delivery_fee")

\* faulty variant: insertOrderItems stores the items without their options
ItemTasksWithoutOptions(items, i) ==
  [k \in 1..Len(items) |-> [op |-> "item", i |-> k, j |-> 0]]

\* the statements of the insert fan-out that follow the order row, in the
\* order the loops of processOrder / insertOrderItems issue them
RECURSIVE ItemTasks(_, _)
ItemTasks(items, i) ==
  IF i > Len(items) THEN <<>>
  ELSE LET opts == items[i].options
           n == IF ~Falsy(opts) /\ Len(opts.v) > 0 THEN Len(opts.v) ELSE 0
       IN <<[op |-> "item", i |-> i, j |-> 0]>>
          \o [j \in 1..n |-> [op |-> "option", i |-> i, j |-> j]]
          \o ItemTasks(items, i + 1)

FanOut(order) ==
  ItemTasks(order.items, 1)
  \o (IF ~Falsy(order.coupons) /\ Len(order.coupons.v) > 0
      THEN [k \in 1..Len(order.coupons.v) |-> [op |-> "coupon", i |-> k, j |-> 0]]
      ELSE <<>>)
  \o (IF ~Falsy(order.tax_list)
      THEN [k \in 1..Len(order.tax_list.v) |-> [op |-> "tax", i |-> k, j |-> 0]]
      ELSE <<>>)
  \o (IF ~Falsy(order.billing_details)
      THEN <<[op |-> "billing", i |-> 0, j |-> 0]>> ELSE <<>>)
  \o <<[op |-> "cacheDelete", i |-> 0, j |-> 0]>>

-----------------------------------------------------------------------------
(* The store *)

EmptyDb ==
  [orders |-> <<>>, clients |-> <<>>, client_addresses |-> <<>>, restaurants |-> <<>>,
   order_items |-> <<>>, order_item_options |-> <<>>, order_coupons |-> <<>>,
   order_taxes |-> <<>>, billing_details |-> <<>>,
   menus |-> <<>>, menu_categories |-> <<>>, menu_items |-> <<>>,
   menu_item_sizes |-> <<>>, menu_option_groups |-> <<>>,
   menu_item_option_groups |-> <<>>, menu_options |-> <<>>,
   webhook_logs |-> <<>>,
   \* AUTOINCREMENT: the largest id ever given out in the tables rows are deleted from
   sqlite_sequence |-> [menu_categories |-> 0, menu_items |-> 0, menu_item_sizes |-> 0,
                        menu_item_option_groups |-> 0]]

EmptyCache == [stats |-> NULL, menu |-> NULL]

\* faulty variant: the dedup lookup never finds a stored order
NoOrdersByKey(gid, pos) == {}

\* faulty variant: the dedup lookup matches on the external order id alone
OrdersByGloriaFoodId(gid, pos) == {r \in Rows(db.orders) : r.gloriafood_id = gid}

\* SELECT id FROM orders WHERE gloriafood_id = ? AND pos_system_id = ?
OrdersByKey(gid, pos) ==
  {r \in Rows(db.orders) : r.gloriafood_id = gid /\ r.pos_system_id = pos}

\* SELECT id FROM clients WHERE gloriafood_id = ?
ClientsByGloriaFoodId(gid) == {r \in Rows(db.clients) : r.gloriafood_id = gid}

\* SELECT id FROM client_addresses WHERE client_id = ? AND full_address = ?
\* (a NULL full_address equals nothing)
AddressesOf(clientId, addr) ==
  {r \in Rows(db.client_addresses) :
     r.client_id = clientId /\ addr # NULL /\ r.full_address = addr}

\* SELECT id FROM restaurants WHERE restaurant_key = ?
RestaurantsByKey(key) == {r \in Rows(db.restaurants) : r.restaurant_key = key}

\* getStatsByPeriod('today'): SELECT COUNT(*) as orders ... FROM orders WHERE
\* DATE(created_at) = DATE('now')
StatsToday ==
  [orders |-> Cardinality({r \in Rows(db.orders) : r.created_at = now})]

\* the window of getOrdersByType: created_at >= DATE('now', '-30 days')
MonthDays == 30

\* getOrdersByType: SELECT SUM(CASE WHEN type = 'pickup' ...) as pickup, SUM(CASE
\* WHEN type = 'delivery' ...) as delivery FROM orders WHERE created_at >=
\* DATE('now', '-30 days'); result?.pickup || 0 turns the NULL sum of no rows
\* into 0
OrdersByType ==
  LET recent == {r \in Rows(db.orders) : r.created_at >= now - MonthDays}
  IN [pickup |-> Cardinality({r \in recent : r.type = "pickup"}),
      delivery |-> Cardinality({r \in recent : r.type = "delivery"})]

\* the aggregate getDashboardStats assembles from the results of its queries
StatsOf(today, ordersByType) ==
  [orders |-> today.orders, pickup |-> ordersByType.pickup,
   delivery |-> ordersByType.delivery]

\* what getDashboardStats computes when all its queries read this state
DashboardStats == StatsOf(StatsToday, OrdersByType)


-----------------------------------------------------------------------------
(* Menu snapshots (GloriaFoodMenuResponse).  An optional array that is     *)
(* absent and one that is empty both make the loop over it run zero times, *)
(* so both are the empty sequence here.                                    *)

\* the two triggers whose syncMenu invocations may be in flight at once
Syncers == {"manual", "cron"}

Cheese == [id |-> 91, name |-> "Cheese"]
Bacon == [id |-> 92, name |-> "Bacon"]
Egg == [id |-> 93, name |-> "Egg"]
Ketchup == [id |-> 81, name |-> "Ketchup"]

Toppings ==
  [id |-> 9, name |-> "Toppings", required |-> FALSE, allow_quantity |-> FALSE,
   force_min |-> 0, force_max |-> 2, options |-> <<Cheese, Bacon>>]
\* the same option group as the platform serves it after an edit
ToppingsEdited ==
  [id |-> 9, name |-> "Extras", required |-> TRUE, allow_quantity |-> TRUE,
   force_min |-> 1, force_max |-> 3, options |-> <<Cheese, Egg, Bacon>>]
Sauces ==
  [id |-> 8, name |-> "Sauces", required |-> FALSE, allow_quantity |-> FALSE,
   force_min |-> 0, force_max |-> 1, options |-> <<Ketchup>>]
\* the same group as a category lists it, with another name and another maximum
SaucesDraft == [Sauces EXCEPT !.name = "Dips", !.force_max = 2]

Small == [id |-> 31, name |-> "Small", groups |-> <<>>]
Large == [id |-> 32, name |-> "Large", groups |-> <<Sauces>>]

BurgerItem == [id |-> 21, name |-> "Burger", sizes |-> <<>>, groups |-> <<Toppings>>]
FriesItem == [id |-> 22, name |-> "Fries", sizes |-> <<Small, Large>>, groups |-> <<Toppings>>]
\* an item that lists group 8 twice
WrapItem ==
  [id |-> 23, name |-> "Wrap", sizes |-> <<>>, groups |-> <<ToppingsEdited, Sauces, Sauces>>]
ColaItem == [id |-> 24, name |-> "Cola", sizes |-> <<Small>>, groups |-> <<>>]

Mains == [id |-> 11, name |-> "Mains", items |-> <<BurgerItem, FriesItem>>, groups |-> <<>>]
Wraps == [id |-> 13, name |-> "Wraps", items |-> <<WrapItem>>, groups |-> <<>>]
Drinks == [id |-> 12, name |-> "Drinks", items |-> <<ColaItem>>, groups |-> <<SaucesDraft>>]

\* the spec's scenario: one category, two items that share option group 9
MenuV1 == [id |-> 100, restaurant_id |-> 1, currency |-> "USD", active |-> TRUE,
           categories |-> <<Mains>>]
\* the same menu after an edit: Mains is gone, the shared group was changed
MenuV2 == [id |-> 100, restaurant_id |-> 1, currency |-> "EUR", active |-> TRUE,
           categories |-> <<Drinks, Wraps>>]
\* the same menu, emptied and deactivated
MenuV3 == [id |-> 100, restaurant_id |-> 1, currency |-> "USD", active |-> FALSE,
           categories |-> <<>>]
\* another menu of the restaurant (another external menu id)
MenuOther == [id |-> 200, restaurant_id |-> 1, currency |-> "USD", active |-> TRUE,
              categories |-> <<Drinks>>]

Snapshots == {MenuV1, MenuV2, MenuV3, MenuOther}

\* a small menu for overlapping syncs: one category, one item with a size and
\* an option group
RingsItem == [id |-> 25, name |-> "Rings", sizes |-> <<Small>>, groups |-> <<Sauces>>]
Sides == [id |-> 14, name |-> "Sides", items |-> <<RingsItem>>, groups |-> <<>>]
MenuSides == [id |-> 100, restaurant_id |-> 1, currency |-> "USD", active |-> TRUE,
              categories |-> <<Sides>>]

RaceSnapshots == {MenuV3, MenuSides}

-----------------------------------------------------------------------------
(* OrdersService.processOrder, one action per awaited statement *)

\* the history keeps the results of the last HistLen finished invocations
Remember(h, r) == IF Len(h) < HistLen THEN Append(h, r) ELSE Append(Tail(h), r)

IdleLoc ==
  [order |-> OrderA, existing |-> NULL, clientId |-> NULL, restaurantId |-> 0,
   orderId |-> 0, itemId |-> 0, todo |-> <<>>,
   \* history: the rows this invocation inserted, whether it updated the client,
   \* whether the order's key was unstored when it started, and the client's
   \* row as stored then
   writes |-> {}, updated |-> FALSE, fresh |-> TRUE, client0 |-> NULL]

\* a route handler that is not running
IdleGw ==
  [at |-> "idle", auth |-> UNDEF, payload |-> <<>>, batch |-> <<>>, results |-> <<>>,
   error |-> "",
   \* payload.count, the count field of the request body
   count |-> UNDEF,
   \* history: the number of event-log rows and of processOrder invocations
   \* when the handler started
   logs0 |-> 0, calls0 |-> 0]

\* the handler of route p awaits the processOrder invocation of slot p
Awaited(p) == gw[p].at = "call"

\* the invocation of slot p returns { orderId, isNew }; a handler that awaits
\* it pushes { gloriafood_id, internal_id, is_new } to its results
Return(p, orderId, isNew) ==
  /\ gw' = IF Awaited(p)
           THEN [gw EXCEPT ![p].at = "loop",
                           ![p].results = Append(@, [gloriafood_id |-> loc[p].order.id,
                                                     internal_id |-> orderId,
                                                     is_new |-> isNew])]
           ELSE gw
  /\ UNCHANGED ghist
  /\ pc' = [pc EXCEPT ![p] = "idle"]
  /\ loc' = [loc EXCEPT ![p] = IdleLoc]
  /\ hist' = Remember(hist, [proc |-> p, order |-> loc[p].order, ok |-> TRUE,
                           orderId |-> orderId, isNew |-> isNew, error |-> "",
                           at |-> pc[p], writes |-> loc[p].writes,
                           updated |-> loc[p].updated, fresh |-> loc[p].fresh,
                           client0 |-> loc[p].client0])

\* the invocation of slot p rejects with an error; nothing is rolled back; a
\* handler that awaits it goes to its catch block
Throw(p, error) ==
  /\ gw' = IF Awaited(p) THEN [gw EXCEPT ![p].at = "catch", ![p].error = error] ELSE gw
  /\ UNCHANGED ghist
  /\ pc' = [pc EXCEPT ![p] = "idle"]
  /\ loc' = [loc EXCEPT ![p] = IdleLoc]
  /\ hist' = Remember(hist, [proc |-> p, order |-> loc[p].order, ok |-> FALSE,
                           orderId |-> loc[p].orderId, isNew |-> FALSE, error |-> error,
                           at |-> pc[p], writes |-> loc[p].writes,
                           updated |-> loc[p].updated, fresh |-> loc[p].fresh,
                           client0 |-> loc[p].client0])

\* the statement that follows the dedup lookup: getOrCreateClient returns null
\* without a query when the payload carries no client id
AfterLookup(order) ==
  IF Falsy(ClientGloriaFoodId(order)) THEN "selectRestaurant" ELSE "selectClient"

\* the statement that follows the client's INSERT or UPDATE
AfterClient(order) ==
  IF SavesAddress(order) THEN "selectAddress" ELSE "selectRestaurant"

Goto(p, label, newLoc) ==
  /\ pc' = [pc EXCEPT ![p] = label]
  /\ loc' = [loc EXCEPT ![p] = newLoc]
  /\ UNCHANGED <<hist, gw, ghist>>

\* the stored row of the client a payload names, null when there is none
StoredClient(gid) ==
  IF Falsy(gid) \/ ClientsByGloriaFoodId(gid.v) = {} THEN NULL
  ELSE Obj(First(ClientsByGloriaFoodId(gid.v)))

\* processOrder(order) is entered in slot p
Begin(p, order) ==
  /\ calls' = calls + 1
  /\ pc' = [pc EXCEPT ![p] = "selectOrder"]
  /\ loc' = [loc EXCEPT ![p] =
               [IdleLoc EXCEPT
                  !.order = order,
                  !.fresh = OrdersByKey(order.id, PosOf(order)) = {},
                  !.client0 = StoredClient(ClientGloriaFoodId(order))]]
  /\ UNCHANGED <<db, cache, hist, faults, menuVars>>

\* a webhook or poll handler calls processOrder(order)
Start(p, order, limit) ==
  /\ pc[p] = "idle"
  /\ calls < limit
  /\ Begin(p, order)
  /\ UNCHANGED <<gw, ghist>>

\* faulty variant: a dedup hit invalidates the dashboard cache before returning
SelectOrderInvalidating(p) ==
  /\ pc[p] = "selectOrder"
  /\ LET order == loc[p].order
         existing == OrdersByKey(order.id, PosOf(order))
     IN IF existing # {}
        THEN /\ Return(p, First(existing).id, FALSE)
             /\ cache' = [cache EXCEPT !.stats = NULL]
        ELSE /\ Goto(p, AfterLookup(order), loc[p])
             /\ UNCHANGED cache
  /\ UNCHANGED <<db, calls, faults, menuVars>>

\* faulty variant: only pushed orders are looked up
SelectOrderOfPushOnly(p) ==
  /\ pc[p] = "selectOrder"
  /\ LET order == loc[p].order
         existing == IF p = "push" THEN OrdersByKey(order.id, PosOf(order)) ELSE {}
     IN IF existing # {}
        THEN Return(p, First(existing).id, FALSE)
        ELSE Goto(p, AfterLookup(order), loc[p])
  /\ UNCHANGED <<db, cache, calls, faults, menuVars>>

\* faulty variant: a dedup hit is reported as a new order
SelectOrderReportingNew(p) ==
  /\ pc[p] = "selectOrder"
  /\ LET order == loc[p].order
         existing == OrdersByKey(order.id, PosOf(order))
     IN IF existing # {}
        THEN Return(p, First(existing).id, TRUE)
        ELSE Goto(p, AfterLookup(order), loc[p])
  /\ UNCHANGED <<db, cache, calls, faults, menuVars>>

\* SELECT id FROM orders WHERE gloriafood_id = ? AND pos_system_id = ?
\* if (existing) return { orderId: existing.id, isNew: false }
SelectOrder(p) ==
  /\ pc[p] = "selectOrder"
  /\ LET order == loc[p].order
         existing == OrdersByKey(order.id, PosOf(order))
     IN IF existing # {}
        THEN Return(p, First(existing).id, FALSE)
        ELSE Goto(p, AfterLookup(order), loc[p])
  /\ UNCHANGED <<db, cache, calls, faults, menuVars>>

\* getOrCreateClient: SELECT id FROM clients WHERE gloriafood_id = ?
SelectClient(p) ==
  /\ pc[p] = "selectClient"
  /\ LET existing == ClientsByGloriaFoodId(ClientGloriaFoodId(loc[p].order).v)
     IN IF existing # {}
        THEN Goto(p, "updateClient", [loc[p] EXCEPT !.existing = Num(First(existing).id)])
        ELSE Goto(p, "insertClient", loc[p])
  /\ UNCHANGED <<db, cache, calls, faults, menuVars>>

\* the row the UPDATE clients statement leaves
UpdatedClient(row, order) ==
  [row EXCEPT
     !.first_name = Coalesce(order.client_first_name, @),
     !.last_name = Coalesce(order.client_last_name, @),
     !.email = Coalesce(order.client_email, @),
     !.phone = Coalesce(order.client_phone, @),
     !.order_count = JsOr(order.client_order_count, Num(0)).v,
     !.marketing_consent = Flag(order.client_marketing_consent)]

\* getOrCreateClient, existing client: UPDATE clients SET ... WHERE id = ?
UpdateClient(p) ==
  /\ pc[p] = "updateClient"
  /\ LET order == loc[p].order
         id == loc[p].existing.v
     IN IF \A x \in {order.client_first_name, order.client_last_name,
                     order.client_email, order.client_phone} : Bindable(x)
        THEN /\ db' = [db EXCEPT !.clients[id] = UpdatedClient(@, order)]
             /\ Goto(p, AfterClient(order),
                     [loc[p] EXCEPT !.clientId = Num(id), !.updated = TRUE])
        ELSE /\ Throw(p, "D1_TYPE_ERROR")
             /\ UNCHANGED db
  /\ UNCHANGED <<cache, calls, faults, menuVars>>

\* the row the INSERT INTO clients statement adds
NewClient(id, order) ==
  [id |-> id,
   gloriafood_id |-> ClientGloriaFoodId(order).v,
   first_name |-> JsOr(order.client_first_name, NULL),
   last_name |-> JsOr(order.client_last_name, NULL),
   email |-> JsOr(order.client_email, NULL),
   phone |-> JsOr(order.client_phone, NULL),
   order_count |-> JsOr(order.client_order_count, Num(1)).v,
   marketing_consent |-> Flag(order.client_marketing_consent)]

\* getOrCreateClient, new client: INSERT INTO clients (gloriafood_id UNIQUE)
InsertClient(p) ==
  /\ pc[p] = "insertClient"
  /\ LET order == loc[p].order
         id == Len(db.clients) + 1
     IN IF ClientsByGloriaFoodId(ClientGloriaFoodId(order).v) = {}
        THEN /\ db' = [db EXCEPT !.clients = Append(@, NewClient(id, order))]
             /\ Goto(p, AfterClient(order),
                     [loc[p] EXCEPT !.clientId = Num(id),
                                    !.writes = @ \cup {<<"clients", id>>}])
        ELSE /\ Throw(p, "UNIQUE constraint failed: clients.gloriafood_id")
             /\ UNCHANGED db
  /\ UNCHANGED <<cache, calls, faults, menuVars>>

\* saveClientAddress: SELECT id FROM client_addresses WHERE client_id = ? AND
\* full_address = ?; if (existing) return
SelectAddress(p) ==
  /\ pc[p] = "selectAddress"
  /\ LET order == loc[p].order
         addr == FullAddress(order)
     IN IF ~Bindable(addr)
        THEN Throw(p, "D1_TYPE_ERROR")
        ELSE IF AddressesOf(loc[p].clientId.v, addr) # {}
             THEN Goto(p, "selectRestaurant", loc[p])
             ELSE Goto(p, "insertAddress", loc[p])
  /\ UNCHANGED <<db, cache, calls, faults, menuVars>>

\* saveClientAddress: INSERT INTO client_addresses
InsertAddress(p) ==
  /\ pc[p] = "insertAddress"
  /\ LET id == Len(db.client_addresses) + 1
     IN /\ db' = [db EXCEPT !.client_addresses =
                    Append(@, [id |-> id, client_id |-> loc[p].clientId.v,
                               full_address |-> FullAddress(loc[p].order)])]
        /\ Goto(p, "selectRestaurant",
                [loc[p] EXCEPT !.writes = @ \cup {<<"client_addresses", id>>}])
  /\ UNCHANGED <<cache, calls, faults, menuVars>>

\* getOrCreateRestaurant: SELECT id FROM restaurants WHERE restaurant_key = ?
SelectRestaurant(p) ==
  /\ pc[p] = "selectRestaurant"
  /\ LET existing == RestaurantsByKey(loc[p].order.restaurant_key)
     IN IF existing # {}
        THEN Goto(p, "insertOrder", [loc[p] EXCEPT !.restaurantId = First(existing).id])
        ELSE Goto(p, "insertRestaurant", loc[p])
  /\ UNCHANGED <<db, cache, calls, faults, menuVars>>

\* getOrCreateRestaurant: INSERT INTO restaurants (gloriafood_id UNIQUE,
\* restaurant_key UNIQUE)
InsertRestaurant(p) ==
  /\ pc[p] = "insertRestaurant"
  /\ LET order == loc[p].order
         id == Len(db.restaurants) + 1
     IN IF RestaurantsByKey(order.restaurant_key) # {}
        THEN /\ Throw(p, "UNIQUE constraint failed: restaurants.restaurant_key")
             /\ UNCHANGED db
        ELSE IF \E r \in Rows(db.restaurants) : r.gloriafood_id = order.restaurant_id
             THEN /\ Throw(p, "UNIQUE constraint failed: restaurants.gloriafood_id")
                  /\ UNCHANGED db
             ELSE /\ db' = [db EXCEPT !.restaurants =
                              Append(@, [id |-> id, gloriafood_id |-> order.restaurant_id,
                                         restaurant_key |-> order.restaurant_key,
                                         name |-> order.restaurant_name])]
                  /\ Goto(p, "insertOrder",
                          [loc[p] EXCEPT !.restaurantId = id,
                                         !.writes = @ \cup {<<"restaurants", id>>}])
  /\ UNCHANGED <<cache, calls, faults, menuVars>>

\* a row of orders; created_at is the day the row was inserted
OrderRow(id, order, clientId, restaurantId, createdAt) ==
  [id |-> id,
   created_at |-> createdAt,
   gloriafood_id |-> order.id,
   pos_system_id |-> PosOf(order),
   restaurant_id |-> restaurantId,
   client_id |-> clientId,
   type |-> order.type,
   total_price |-> order.total_price,
   payment_method |-> JsOr(PaymentMethod(order), NULL),
   delivery_fee |-> DeliveryFeeOf(order),
   delivery_address |-> JsOr(order.client_address, NULL),
   tip_amount |-> TipAmount(order),
   raw_payload |-> order]

\* the row the INSERT INTO orders statement adds: created_at TEXT DEFAULT
\* CURRENT_TIMESTAMP
NewOrder(id, order, clientId, restaurantId) ==
  OrderRow(id, order, clientId, restaurantId, now)

\* faulty variant: the orders table without its UNIQUE constraint
InsertOrderUnchecked(p) ==
  /\ pc[p] = "insertOrder"
  /\ LET order == loc[p].order
         id == Len(db.orders) + 1
     IN /\ db' = [db EXCEPT !.orders =
                    Append(@, NewOrder(id, order, loc[p].clientId, loc[p].restaurantId))]
        /\ Goto(p, "fanOut",
                [loc[p] EXCEPT !.orderId = id, !.todo = FanOut(order),
                               !.writes = @ \cup {<<"orders", id>>}])
  /\ UNCHANGED <<cache, calls, faults, menuVars>>

\* INSERT INTO orders ... UNIQUE(gloriafood_id, pos_system_id)
InsertOrder(p) ==
  /\ pc[p] = "insertOrder"
  /\ LET order == loc[p].order
         id == Len(db.orders) + 1
     IN IF OrdersByKey(order.id, PosOf(order)) = {}
        THEN /\ db' = [db EXCEPT !.orders =
                         Append(@, NewOrder(id, order, loc[p].clientId, loc[p].restaurantId))]
             /\ Goto(p, "fanOut",
                     [loc[p] EXCEPT !.orderId = id, !.todo = FanOut(order),
                                    !.writes = @ \cup {<<"orders", id>>}])
        ELSE /\ Throw(p, "UNIQUE constraint failed: orders.gloriafood_id, orders.pos_system_id")
             /\ UNCHANGED db
  /\ UNCHANGED <<cache, calls, faults, menuVars>>

\* the fan-out statement slot p issues next
Task(p) == Head(loc[p].todo)
AtTask(p, op) == pc[p] = "fanOut" /\ Task(p).op = op

\* insertOrderItems: INSERT INTO order_items
InsertOrderItem(p) ==
  /\ AtTask(p, "item")
  /\ LET item == loc[p].order.items[Task(p).i]
         id == Len(db.order_items) + 1
     IN /\ db' = [db EXCEPT !.order_items =
                    Append(@, [id |-> id, order_id |-> loc[p].orderId, name |-> item.name,
                               type |-> item.type, total_price |-> item.total_item_price])]
        /\ Goto(p, "fanOut",
                [loc[p] EXCEPT !.itemId = id, !.todo = Tail(@),
                               !.writes = @ \cup {<<"order_items", id>>}])
  /\ UNCHANGED <<cache, calls, faults, menuVars>>

\* insertOrderItems: INSERT INTO order_item_options
InsertOrderItemOption(p) ==
  /\ AtTask(p, "option")
  /\ LET option == loc[p].order.items[Task(p).i].options.v[Task(p).j]
         id == Len(db.order_item_options) + 1
     IN /\ db' = [db EXCEPT !.order_item_options =
                    Append(@, [id |-> id, order_item_id |-> loc[p].itemId,
                               name |-> option.name, type |-> option.type])]
        /\ Goto(p, "fanOut",
                [loc[p] EXCEPT !.todo = Tail(@),
                               !.writes = @ \cup {<<"order_item_options", id>>}])
  /\ UNCHANGED <<cache, calls, faults, menuVars>>

\* INSERT INTO order_coupons (order_id, coupon_code)
InsertCoupon(p) ==
  /\ AtTask(p, "coupon")
  /\ LET id == Len(db.order_coupons) + 1
     IN /\ db' = [db EXCEPT !.order_coupons =
                    Append(@, [id |-> id, order_id |-> loc[p].orderId,
                               coupon_code |-> loc[p].order.coupons.v[Task(p).i]])]
        /\ Goto(p, "fanOut",
                [loc[p] EXCEPT !.todo = Tail(@),
                               !.writes = @ \cup {<<"order_coupons", id>>}])
  /\ UNCHANGED <<cache, calls, faults, menuVars>>

\* INSERT INTO order_taxes (order_id, type, rate, value)
InsertTax(p) ==
  /\ AtTask(p, "tax")
  /\ LET id == Len(db.order_taxes) + 1
     IN /\ db' = [db EXCEPT !.order_taxes =
                    Append(@, [id |-> id, order_id |-> loc[p].orderId,
                               type |-> loc[p].order.tax_list.v[Task(p).i].type])]
        /\ Goto(p, "fanOut",
                [loc[p] EXCEPT !.todo = Tail(@),
                               !.writes = @ \cup {<<"order_taxes", id>>}])
  /\ UNCHANGED <<cache, calls, faults, menuVars>>

\* insertBillingDetails: INSERT INTO billing_details (order_id UNIQUE)
InsertBillingDetails(p) ==
  /\ AtTask(p, "billing")
  /\ LET id == Len(db.billing_details) + 1
     IN /\ db' = [db EXCEPT !.billing_details =
                    Append(@, [id |-> id, order_id |-> loc[p].orderId,
                               type |-> JsOr(loc[p].order.billing_details.v.type, NULL)])]
        /\ Goto(p, "fanOut",
                [loc[p] EXCEPT !.todo = Tail(@),
                               !.writes = @ \cup {<<"billing_details", id>>}])
  /\ UNCHANGED <<cache, calls, faults, menuVars>>

\* faulty variant: the menu's cache entry is deleted, not the dashboard's
CacheDeleteMenu(p) ==
  /\ AtTask(p, "cacheDelete")
  /\ cache' = [cache EXCEPT !.menu = NULL]
  /\ Return(p, loc[p].orderId, TRUE)
  /\ UNCHANGED <<db, calls, faults, menuVars>>

\* await this.cache.delete('dashboard:stats'); return { orderId, isNew: true }
CacheDelete(p) ==
  /\ AtTask(p, "cacheDelete")
  /\ cache' = [cache EXCEPT !.stats = NULL]
  /\ Return(p, loc[p].orderId, TRUE)
  /\ UNCHANGED <<db, calls, faults, menuVars>>

\* the labels at which the next statement of processOrder is a store write
WriteLabels ==
  {"updateClient", "insertClient", "insertAddress", "insertRestaurant", "insertOrder",
   "fanOut"}

\* the store (or, for the last statement, the cache) fails the write slot p is
\* about to issue: the statement has no effect and the invocation rejects
StoreFailure(p) ==
  /\ pc[p] \in WriteLabels
  /\ faults < MaxFaults
  /\ faults' = faults + 1
  /\ Throw(p, "store failure")
  /\ UNCHANGED <<db, cache, calls, menuVars>>

\* a body of PUT /api/clients/:id (Partial<Client>): a field that is not sent
\* is undefined
NoClientData ==
  [first_name |-> UNDEF, last_name |-> UNDEF, email |-> UNDEF, phone |-> UNDEF,
   marketing_consent |-> UNDEF]

\* the bodies sent to PUT /api/clients/:id: no field, or an e-mail with a
\* withdrawn consent
ClientData ==
  {NoClientData,
   [NoClientData EXCEPT !.email = Str("new@x"), !.marketing_consent = Bool(FALSE)]}

\* the columns ClientsService.updateClient can set
ClientFields == {"first_name", "last_name", "email", "phone", "marketing_consent"}

\* updateClient: UPDATE clients SET <each field of data that is not undefined>
\* WHERE id = ?, with marketing_consent ? 1 : 0
PatchedClient(client, data) ==
  [f \in DOMAIN client |->
     IF f \in ClientFields /\ data[f] # UNDEF
     THEN IF f = "marketing_consent" THEN Flag(data[f]) ELSE data[f]
     ELSE client[f]]

\* ClientsService.updateClient(id, data), reached by PUT /api/clients/:id:
\* with no field to set it returns false without a statement, and an id that
\* is not stored changes no row
ClientsUpdateClient ==
  /\ \E id \in 1..Len(db.clients), data \in ClientData :
       /\ \E f \in ClientFields : data[f] # UNDEF
       /\ db' = [db EXCEPT !.clients[id] = PatchedClient(@, data)]
  /\ UNCHANGED <<cache, orderVars, faults, menuVars>>

\* the queries of getDashboardStats whose results the aggregate of the model
\* carries; Promise.all issues them together and each resolves on its own
StatsQueries == {"today", "ordersByType"}

\* no getDashboardStats invocation is in flight
IdleReader == [at |-> "idle", pending |-> {}, today |-> NULL, ordersByType |-> NULL]

\* getDashboardStats: const cached = await this.cache.get('dashboard:stats');
\* a hit returns the cached value, a miss issues the queries
CacheGetStats ==
  /\ reader.at = "idle"
  /\ cache.stats = NULL
  /\ reader' = [IdleReader EXCEPT !.at = "queries", !.pending = StatsQueries]
  /\ UNCHANGED <<db, cache, orderVars, faults, mpc, mloc, mhist, syncs, mreader, now>>

\* query q of the Promise.all resolves with what the store holds now; after
\* the last one the aggregate is assembled
ResolveStatsQuery(q, result) ==
  /\ reader.at = "queries"
  /\ q \in reader.pending
  /\ reader' = [reader EXCEPT ![q] = result,
                              !.pending = @ \ {q},
                              !.at = IF reader.pending = {q} THEN "put" ELSE @]
  /\ UNCHANGED <<db, cache, orderVars, faults, mpc, mloc, mhist, syncs, mreader, now>>

\* getStatsByPeriod('today') resolves
QueryStatsToday == ResolveStatsQuery("today", StatsToday)

\* getOrdersByType() resolves
QueryOrdersByType == ResolveStatsQuery("ordersByType", OrdersByType)

\* getDashboardStats: await this.cache.put('dashboard:stats', JSON.stringify(stats),
\* { expirationTtl: 300 })
PutDashboardStats ==
  /\ reader.at = "put"
  /\ cache' = [cache EXCEPT !.stats = Obj(StatsOf(reader.today, reader.ordersByType))]
  /\ reader' = IdleReader
  /\ UNCHANGED <<db, orderVars, faults, mpc, mloc, mhist, syncs, mreader, now>>

\* StatsService.getDashboardStats, statement by statement
GetDashboardStatsStep ==
  \/ CacheGetStats
  \/ QueryStatsToday
  \/ QueryOrdersByType
  \/ PutDashboardStats

\* the entry 'dashboard:stats' expires (expirationTtl: 300)
StatsCacheExpires ==
  /\ cache.stats # NULL
  /\ cache' = [cache EXCEPT !.stats = NULL]
  /\ UNCHANGED <<db, orderVars, faults, menuVars>>

\* the days on which the program runs: a day, the next day, and the first day
\* on which the rows of day 0 are out of the 30-day window
Instants == {0, 1, MonthDays + 1}

\* time passes to a later day on which the program runs
ClockAdvances ==
  /\ \E t \in Instants : t > now /\ now' = t
  /\ UNCHANGED <<db, cache, orderVars, faults, mpc, mloc, mhist, syncs, reader, mreader>>

ProcessOrderStep(p) ==
  \/ SelectOrder(p)
  \/ SelectClient(p)
  \/ UpdateClient(p)
  \/ InsertClient(p)
  \/ SelectAddress(p)
  \/ InsertAddress(p)
  \/ SelectRestaurant(p)
  \/ InsertRestaurant(p)
  \/ InsertOrder(p)
  \/ InsertOrderItem(p)
  \/ InsertOrderItemOption(p)
  \/ InsertCoupon(p)
  \/ InsertTax(p)
  \/ InsertBillingDetails(p)
  \/ CacheDelete(p)

-----------------------------------------------------------------------------
(* The menu tables: statements of MenuService as functions of the store *)

\* SELECT id FROM menus WHERE gloriafood_id = ?
MenusByGloriaFoodId(gid) == {r \in Rows(db.menus) : r.gloriafood_id = gid}

\* faulty variant: the option-group lookup never finds a stored group
NoOptionGroups(gid) == {}

\* SELECT id FROM menu_option_groups WHERE gloriafood_id = ?
OptionGroupsByGloriaFoodId(gid) == {r \in Rows(db.menu_option_groups) : r.gloriafood_id = gid}

\* the id an INSERT gives the next row of a table rows are deleted from
NextId(table) == db.sqlite_sequence[table] + 1

\* faulty variant: deleting a size leaves its association rows in place
DeleteSizesOnly(d, itemIds) ==
  [d EXCEPT !.menu_item_sizes = SelectSeq(@, LAMBDA r : r.item_id \notin itemIds)]

\* DELETE FROM menu_item_sizes WHERE item_id IN itemIds; the association rows
\* of the deleted sizes go with them (size_id ... ON DELETE CASCADE)
DeleteSizes(d, itemIds) ==
  LET gone == {Num(r.id) : r \in {x \in Rows(d.menu_item_sizes) : x.item_id \in itemIds}}
  IN [d EXCEPT !.menu_item_sizes = SelectSeq(@, LAMBDA r : r.item_id \notin itemIds),
               !.menu_item_option_groups = SelectSeq(@, LAMBDA r : r.size_id \notin gone)]

\* DELETE FROM menu_item_option_groups WHERE item_id IN itemIds
DeleteItemGroups(d, itemIds) ==
  [d EXCEPT !.menu_item_option_groups =
     SelectSeq(@, LAMBDA r : r.item_id \notin {Num(i) : i \in itemIds})]

\* DELETE FROM menu_items WHERE category_id IN categoryIds; sizes and
\* association rows of the deleted items go with them (ON DELETE CASCADE)
DeleteItems(d, categoryIds) ==
  LET gone == {r.id : r \in {x \in Rows(d.menu_items) : x.category_id \in categoryIds}}
      kept == [d EXCEPT !.menu_items = SelectSeq(@, LAMBDA r : r.category_id \notin categoryIds)]
  IN DeleteItemGroups(DeleteSizes(kept, gone), gone)

\* faulty variant: clearMenuData also empties the option groups and their options
DeleteCategoriesAndGroups(d, menuId) ==
  [d EXCEPT !.menu_categories = SelectSeq(@, LAMBDA r : r.menu_id # menuId),
            !.menu_option_groups = <<>>, !.menu_options = <<>>]

\* faulty variant: clearMenuData leaves the menu's categories in place
KeepCategories(d, menuId) == d

\* DELETE FROM menu_categories WHERE menu_id = ?; the items of the deleted
\* categories go with them (ON DELETE CASCADE)
DeleteCategories(d, menuId) ==
  LET gone == {r.id : r \in {x \in Rows(d.menu_categories) : x.menu_id = menuId}}
      kept == [d EXCEPT !.menu_categories = SelectSeq(@, LAMBDA r : r.menu_id # menuId)]
  IN DeleteItems(kept, gone)

\* ORDER BY sort_order; rows of equal sort_order come in id order
RECURSIVE OrderBySortOrder(_)
OrderBySortOrder(rows) ==
  IF rows = {} THEN <<>>
  ELSE LET r == CHOOSE x \in rows : \A q \in rows :
                  \/ x.sort_order < q.sort_order
                  \/ x.sort_order = q.sort_order /\ x.id <= q.id
       IN <<r>> \o OrderBySortOrder(rows \ {r})

\* the ids of a sequence of rows, in order
Ids(rows) == [i \in 1..Len(rows) |-> rows[i].id]

-----------------------------------------------------------------------------
(* MenuService reads *)

\* getOptionGroupsForItem: the groups joined to the item through the
\* association table, one per association row, each with its options
getOptionGroupsForItem(itemId) ==
  LET relations == SelectSeq(db.menu_item_option_groups, LAMBDA r : r.item_id = Num(itemId))
  IN [i \in 1..Len(relations) |->
        LET group == CHOOSE g \in Rows(db.menu_option_groups) :
                       g.id = relations[i].option_group_id
        IN [id |-> group.id, gloriafood_id |-> group.gloriafood_id, name |-> group.name,
            required |-> group.required,
            options |-> OrderBySortOrder({o \in Rows(db.menu_options) :
                                            o.option_group_id = group.id})]]

\* getFullMenu on a cache miss: the menu SELECT * FROM menus LIMIT 1 gives,
\* built from the store; null when there is no menu
FullMenuFromStore ==
  IF db.menus = <<>> THEN NULL
  ELSE LET menu == db.menus[1]
           categories == OrderBySortOrder({c \in Rows(db.menu_categories) : c.menu_id = menu.id})
           ItemsOf(cat) == OrderBySortOrder({r \in Rows(db.menu_items) : r.category_id = cat.id})
           SizesOf(item) == OrderBySortOrder({r \in Rows(db.menu_item_sizes) : r.item_id = item.id})
           FullItem(item) ==
             [id |-> item.id, category_id |-> item.category_id,
              gloriafood_id |-> item.gloriafood_id, name |-> item.name,
              sort_order |-> item.sort_order,
              sizes |-> SizesOf(item), groups |-> getOptionGroupsForItem(item.id)]
           FullCategory(cat) ==
             [id |-> cat.id, menu_id |-> cat.menu_id, gloriafood_id |-> cat.gloriafood_id,
              name |-> cat.name, sort_order |-> cat.sort_order,
              items |-> [i \in 1..Len(ItemsOf(cat)) |-> FullItem(ItemsOf(cat)[i])]]
       IN Obj([id |-> menu.id, gloriafood_id |-> menu.gloriafood_id,
               restaurant_id |-> menu.restaurant_id, currency |-> menu.currency,
               active |-> menu.active, synced_at |-> menu.synced_at,
               categories |-> [i \in 1..Len(categories) |-> FullCategory(categories[i])]])

\* getCategories: every stored category with the number of its items
getCategories ==
  LET WithCount(cat) ==
        [id |-> cat.id, menu_id |-> cat.menu_id, gloriafood_id |-> cat.gloriafood_id,
         name |-> cat.name, sort_order |-> cat.sort_order,
         item_count |-> Cardinality({r \in Rows(db.menu_items) : r.category_id = cat.id})]
      categories == OrderBySortOrder(Rows(db.menu_categories))
  IN [i \in 1..Len(categories) |-> WithCount(categories[i])]

\* no getFullMenu invocation is in flight
IdleMenuReader == [at |-> "idle", menu |-> NULL, categories |-> <<>>, queue |-> <<>>]

\* a getFullMenu step: the store, the cache and everything else but the
\* reader stay as they are
MenuReaderOnly ==
  UNCHANGED <<db, orderVars, faults, mpc, mloc, mhist, syncs, reader, now>>

\* getFullMenu: const cached = await this.cache.get('menu:full'); a hit
\* returns the cached value, a miss goes on to the store
CacheGetMenu ==
  /\ mreader.at = "idle"
  /\ cache.menu = NULL
  /\ mreader' = [IdleMenuReader EXCEPT !.at = "menu"]
  /\ UNCHANGED cache
  /\ MenuReaderOnly

\* SELECT * FROM menus LIMIT 1; if (!menu) return null
ReadMenu ==
  /\ mreader.at = "menu"
  /\ mreader' = IF db.menus = <<>> THEN IdleMenuReader
                ELSE [mreader EXCEPT !.at = "categories", !.menu = db.menus[1]]
  /\ UNCHANGED cache
  /\ MenuReaderOnly

\* where the reader stands once the statements it has in flight are q
AfterQueries(q) == IF q = <<>> THEN "put" ELSE "queries"

\* SELECT * FROM menu_categories WHERE menu_id = ? ORDER BY sort_order; the
\* map over the result issues one SELECT of items per category
ReadCategories ==
  /\ mreader.at = "categories"
  /\ LET rows == OrderBySortOrder({c \in Rows(db.menu_categories) :
                                     c.menu_id = mreader.menu.id})
         queue == [c \in 1..Len(rows) |-> [op |-> "items", c |-> c, i |-> 0, g |-> 0]]
     IN mreader' = [mreader EXCEPT
                      !.at = AfterQueries(queue),
                      !.queue = queue,
                      !.categories =
                        [c \in 1..Len(rows) |->
                           [id |-> rows[c].id, menu_id |-> rows[c].menu_id,
                            gloriafood_id |-> rows[c].gloriafood_id,
                            name |-> rows[c].name, sort_order |-> rows[c].sort_order,
                            items |-> <<>>]]]
  /\ UNCHANGED cache
  /\ MenuReaderOnly

\* the k-th of the statements the reader has in flight, in the order they
\* were issued; the Promise.all maps issue them together and the store may
\* answer any of them next
MenuQuery(k) == mreader.queue[k]
AtMenuQuery(k, op) ==
  mreader.at = "queries" /\ k \in 1..Len(mreader.queue) /\ MenuQuery(k).op = op

\* a sequence without its k-th element
Without(seq, k) == SubSeq(seq, 1, k - 1) \o SubSeq(seq, k + 1, Len(seq))

\* the k-th statement in flight resolves: its result goes into the tree, and
\* the statements its continuation issues are in flight after the others
ResolveMenuQuery(k, categories, issued) ==
  /\ mreader' = [mreader EXCEPT !.categories = categories,
                                !.queue = Without(@, k) \o issued,
                                !.at = AfterQueries(Without(mreader.queue, k) \o issued)]
  /\ UNCHANGED cache
  /\ MenuReaderOnly

\* SELECT * FROM menu_items WHERE category_id = ? ORDER BY sort_order; the
\* map over the result issues one SELECT of sizes per item
ReadItems(k) ==
  /\ AtMenuQuery(k, "items")
  /\ LET c == MenuQuery(k).c
         rows == OrderBySortOrder({r \in Rows(db.menu_items) :
                                     r.category_id = mreader.categories[c].id})
     IN ResolveMenuQuery(k,
          [mreader.categories EXCEPT ![c].items =
             [i \in 1..Len(rows) |->
                [id |-> rows[i].id, category_id |-> rows[i].category_id,
                 gloriafood_id |-> rows[i].gloriafood_id, name |-> rows[i].name,
                 sort_order |-> rows[i].sort_order, sizes |-> <<>>, groups |-> <<>>]]],
          [i \in 1..Len(rows) |-> [op |-> "sizes", c |-> c, i |-> i, g |-> 0]])

\* SELECT * FROM menu_item_sizes WHERE item_id = ? ORDER BY sort_order; then
\* getOptionGroupsForItem(item.id) is called
ReadSizes(k) ==
  /\ AtMenuQuery(k, "sizes")
  /\ LET c == MenuQuery(k).c
         i == MenuQuery(k).i
         item == mreader.categories[c].items[i]
     IN ResolveMenuQuery(k,
          [mreader.categories EXCEPT ![c].items[i].sizes =
             OrderBySortOrder({r \in Rows(db.menu_item_sizes) : r.item_id = item.id})],
          <<[op |-> "groups", c |-> c, i |-> i, g |-> 0]>>)

\* getOptionGroupsForItem: SELECT og.* FROM menu_option_groups og INNER JOIN
\* menu_item_option_groups miog ... WHERE miog.item_id = ?; the map over the
\* result issues one SELECT of options per group
ReadGroups(k) ==
  /\ AtMenuQuery(k, "groups")
  /\ LET c == MenuQuery(k).c
         i == MenuQuery(k).i
         item == mreader.categories[c].items[i]
         relations == SelectSeq(db.menu_item_option_groups,
                                LAMBDA r : /\ r.item_id = Num(item.id)
                                           /\ \E og \in Rows(db.menu_option_groups) :
                                                og.id = r.option_group_id)
         GroupOf(r) == CHOOSE og \in Rows(db.menu_option_groups) :
                         og.id = r.option_group_id
     IN ResolveMenuQuery(k,
          [mreader.categories EXCEPT ![c].items[i].groups =
             [g \in 1..Len(relations) |->
                [id |-> GroupOf(relations[g]).id,
                 gloriafood_id |-> GroupOf(relations[g]).gloriafood_id,
                 name |-> GroupOf(relations[g]).name,
                 required |-> GroupOf(relations[g]).required,
                 options |-> <<>>]]],
          [g \in 1..Len(relations) |-> [op |-> "options", c |-> c, i |-> i, g |-> g]])

\* getOptionGroupsForItem: SELECT * FROM menu_options WHERE option_group_id = ?
\* ORDER BY sort_order
ReadOptions(k) ==
  /\ AtMenuQuery(k, "options")
  /\ LET c == MenuQuery(k).c
         i == MenuQuery(k).i
         g == MenuQuery(k).g
         group == mreader.categories[c].items[i].groups[g]
     IN ResolveMenuQuery(k,
          [mreader.categories EXCEPT ![c].items[i].groups[g].options =
             OrderBySortOrder({o \in Rows(db.menu_options) : o.option_group_id = group.id})],
          <<>>)

\* the fullMenu object: { ...menu, categories }
FullMenuRead ==
  Obj([id |-> mreader.menu.id, gloriafood_id |-> mreader.menu.gloriafood_id,
       restaurant_id |-> mreader.menu.restaurant_id, currency |-> mreader.menu.currency,
       active |-> mreader.menu.active, synced_at |-> mreader.menu.synced_at,
       categories |-> mreader.categories])

\* await this.cache.put('menu:full', JSON.stringify(fullMenu), { expirationTtl: 3600 })
CachePutFullMenu ==
  /\ mreader.at = "put"
  /\ cache' = [cache EXCEPT !.menu = FullMenuRead]
  /\ mreader' = IdleMenuReader
  /\ MenuReaderOnly

\* MenuService.getFullMenu, statement by statement
GetFullMenuStep ==
  \/ CacheGetMenu
  \/ ReadMenu
  \/ ReadCategories
  \/ \E k \in 1..Len(mreader.queue) : ReadItems(k)
  \/ \E k \in 1..Len(mreader.queue) : ReadSizes(k)
  \/ \E k \in 1..Len(mreader.queue) : ReadGroups(k)
  \/ \E k \in 1..Len(mreader.queue) : ReadOptions(k)
  \/ CachePutFullMenu

\* the cached menu reaches its expirationTtl
MenuCacheExpires ==
  /\ cache.menu # NULL
  /\ cache' = [cache EXCEPT !.menu = NULL]
  /\ UNCHANGED <<db, orderVars, faults, menuVars>>

-----------------------------------------------------------------------------
(* MenuService.syncMenu, one action per awaited statement.  The statements *)
(* still to issue are kept as a list of tasks, the first one next; a task  *)
(* that opens a loop puts the loop's statements in front of the rest.      *)

ZeroStats == [categories |-> 0, items |-> 0, sizes |-> 0, optionGroups |-> 0, options |-> 0]

IdleSync ==
  [menuData |-> MenuV3, menuId |-> 0, existing |-> NULL, stats |-> ZeroStats,
   todo |-> <<>>, error |-> "",
   \* history, as of the start of the invocation: the external ids of the stored
   \* option groups, the option rows, the cached menu, and what getCategories
   \* and getFullMenu (on a cache miss) retrieve
   before |-> {}, options0 |-> <<>>, cached0 |-> NULL, listed0 |-> <<>>, full0 |-> NULL,
   \* and the external id of each stored option group, by internal id
   groups0 |-> <<>>,
   \* history, as of the start of clearMenuData: the ids of the menu's
   \* categories, of their items and of the items' sizes
   cleared0 |-> [categories |-> {}, items |-> {}, sizes |-> {}]]

\* for (const category of menuData.categories) processCategory(menuId, category, stats)
\* the sortOrder argument is left to its default
CategoryTasks(categories) ==
  [i \in 1..Len(categories) |-> [op |-> "category", data |-> categories[i], sort |-> 0]]

\* for (const item of category.items) processItem(categoryId, item, stats, itemSortOrder++)
ItemTasksOf(categoryId, items) ==
  [i \in 1..Len(items) |->
     [op |-> "item", categoryId |-> categoryId, data |-> items[i], sort |-> i - 1]]

\* for (const size of item.sizes) processSize(itemId, size, stats, sizeSortOrder++)
SizeTasks(itemId, sizes) ==
  [i \in 1..Len(sizes) |-> [op |-> "size", itemId |-> itemId, data |-> sizes[i], sort |-> i - 1]]

\* for (const group of groups) processOptionGroup(group, stats, itemId, sizeId)
GroupTasks(groups, itemId, sizeId) ==
  [i \in 1..Len(groups) |->
     [op |-> "groupSelect", data |-> groups[i], itemId |-> itemId, sizeId |-> sizeId]]

\* for (const option of group.options) INSERT INTO menu_options (..., optionSortOrder++)
OptionTasks(groupId, options) ==
  [i \in 1..Len(options) |->
     [op |-> "option", groupId |-> groupId, data |-> options[i], sort |-> i - 1]]

\* faulty variant: the timestamp is written before the categories are processed
AfterMenuStampFirst(menuData) ==
  <<[op |-> "clearSelectCategories"], [op |-> "stamp"]>> \o CategoryTasks(menuData.categories)
    \o <<[op |-> "cachePut"], [op |-> "logSuccess"]>>

\* what follows getOrCreateMenu: clearMenuData, the categories, the timestamp,
\* the cache write and the log entry
AfterMenu(menuData) ==
  <<[op |-> "clearSelectCategories"]>> \o CategoryTasks(menuData.categories)
    \o <<[op |-> "stamp"], [op |-> "cachePut"], [op |-> "logSuccess"]>>

MTask(s) == Head(mloc[s].todo)
AtMTask(s, op) == mpc[s] = "run" /\ MTask(s).op = op

MGoto(s, label, newLoc) ==
  /\ mpc' = [mpc EXCEPT ![s] = label]
  /\ mloc' = [mloc EXCEPT ![s] = newLoc]
  /\ UNCHANGED <<mhist, syncs, readVars>>

\* the statement of sync s is done; tasks are the statements it puts in front
Done(s, tasks, newLoc) ==
  MGoto(s, "run", [newLoc EXCEPT !.todo = tasks \o Tail(mloc[s].todo)])

\* a statement inside the try block throws: control goes to the catch block
Caught(s, error) == MGoto(s, "catch", [mloc[s] EXCEPT !.error = error])

\* the result of the sync that just finished
SyncResult(s, ok, error) ==
  [trigger |-> s, menuData |-> mloc[s].menuData, ok |-> ok, error |-> error,
   stats |-> mloc[s].stats, menuId |-> mloc[s].menuId, before |-> mloc[s].before,
   options0 |-> mloc[s].options0, cached0 |-> mloc[s].cached0,
   listed0 |-> mloc[s].listed0, full0 |-> mloc[s].full0, groups0 |-> mloc[s].groups0]

\* an earlier result, without what was retrieved and stored when it started
Earlier(r) ==
  [r EXCEPT !.options0 = IdleSync.options0, !.cached0 = IdleSync.cached0,
            !.listed0 = IdleSync.listed0, !.full0 = IdleSync.full0,
            !.groups0 = IdleSync.groups0]

Finish(s, ok, error) ==
  /\ mpc' = [mpc EXCEPT ![s] = "idle"]
  /\ mloc' = [mloc EXCEPT ![s] = IdleSync]
  /\ mhist' = Remember([i \in 1..Len(mhist) |-> Earlier(mhist[i])],
                       SyncResult(s, ok, error))
  /\ UNCHANGED <<syncs, readVars>>

\* POST /api/menu/sync or the scheduled handler calls syncMenu()
StartSync(s, limit) ==
  /\ mpc[s] = "idle"
  /\ syncs < limit
  /\ syncs' = syncs + 1
  /\ mpc' = [mpc EXCEPT ![s] = "fetch"]
  /\ mloc' = [mloc EXCEPT ![s] =
                [IdleSync EXCEPT
                   !.before = {g.gloriafood_id : g \in Rows(db.menu_option_groups)},
                   !.options0 = db.menu_options,
                   !.groups0 = [i \in 1..Len(db.menu_option_groups) |->
                                  db.menu_option_groups[i].gloriafood_id],
                   !.cached0 = cache.menu,
                   !.listed0 = getCategories,
                   !.full0 = FullMenuFromStore]]
  /\ UNCHANGED <<db, cache, orderVars, faults, mhist, readVars>>

\* const menuData = await this.gloriaFood.fetchMenu(): the platform answers
\* with its current menu
FetchMenuFrom(s, snapshots) ==
  /\ mpc[s] = "fetch"
  /\ \E menuData \in snapshots : MGoto(s, "selectMenu", [mloc[s] EXCEPT !.menuData = menuData])
  /\ UNCHANGED <<db, cache, orderVars, faults>>

FetchMenu(s) == FetchMenuFrom(s, Snapshots)

\* fetchMenu: if (!response.ok) throw new Error(`Error fetching menu: ...`)
FetchMenuFails(s) ==
  /\ mpc[s] = "fetch"
  /\ Caught(s, "Error fetching menu")
  /\ UNCHANGED <<db, cache, orderVars, faults>>

\* getOrCreateMenu: SELECT id FROM menus WHERE gloriafood_id = ?
SelectMenu(s) ==
  /\ mpc[s] = "selectMenu"
  /\ LET existing == MenusByGloriaFoodId(mloc[s].menuData.id)
     IN IF existing # {}
        THEN MGoto(s, "updateMenu", [mloc[s] EXCEPT !.existing = Num(First(existing).id)])
        ELSE MGoto(s, "insertMenu", mloc[s])
  /\ UNCHANGED <<db, cache, orderVars, faults>>

\* getOrCreateMenu: UPDATE menus SET currency = ?, active = ? WHERE id = ?
UpdateMenu(s) ==
  /\ mpc[s] = "updateMenu"
  /\ LET menuData == mloc[s].menuData
         id == mloc[s].existing.v
     IN /\ db' = [db EXCEPT !.menus[id].currency = menuData.currency,
                            !.menus[id].active = Flag(Bool(menuData.active))]
        /\ MGoto(s, "run", [mloc[s] EXCEPT !.menuId = id, !.todo = AfterMenu(menuData)])
  /\ UNCHANGED <<cache, orderVars, faults>>

\* getOrCreateMenu: INSERT INTO menus (gloriafood_id UNIQUE, restaurant_id
\* REFERENCES restaurants(id), currency, active)
InsertMenu(s) ==
  /\ mpc[s] = "insertMenu"
  /\ LET menuData == mloc[s].menuData
         id == Len(db.menus) + 1
     IN IF MenusByGloriaFoodId(menuData.id) # {}
        THEN /\ Caught(s, "UNIQUE constraint failed: menus.gloriafood_id")
             /\ UNCHANGED db
        ELSE IF \A r \in Rows(db.restaurants) : r.id # menuData.restaurant_id
             THEN /\ Caught(s, "FOREIGN KEY constraint failed")
                  /\ UNCHANGED db
             ELSE /\ db' = [db EXCEPT !.menus =
                              Append(@, [id |-> id, gloriafood_id |-> menuData.id,
                                         restaurant_id |-> menuData.restaurant_id,
                                         currency |-> menuData.currency,
                                         active |-> Flag(Bool(menuData.active)),
                                         synced_at |-> syncs])]
                  /\ MGoto(s, "run", [mloc[s] EXCEPT !.menuId = id,
                                                     !.todo = AfterMenu(menuData)])
  /\ UNCHANGED <<cache, orderVars, faults>>

\* clearMenuData: SELECT id FROM menu_categories WHERE menu_id = ?
ClearSelectCategories(s) ==
  /\ AtMTask(s, "clearSelectCategories")
  /\ LET categories == Ids(SelectSeq(db.menu_categories,
                                     LAMBDA c : c.menu_id = mloc[s].menuId))
         PerCategory(i) == <<[op |-> "clearSelectItems", cat |-> categories[i]],
                             [op |-> "deleteItems", cat |-> categories[i]]>>
         Loop[i \in 0..Len(categories)] ==
           IF i = 0 THEN <<>> ELSE Loop[i - 1] \o PerCategory(i)
         cats == {c.id : c \in {x \in Rows(db.menu_categories) : x.menu_id = mloc[s].menuId}}
         items == {r.id : r \in {x \in Rows(db.menu_items) : x.category_id \in cats}}
         sizes == {r.id : r \in {x \in Rows(db.menu_item_sizes) : x.item_id \in items}}
     IN Done(s, Loop[Len(categories)] \o <<[op |-> "deleteCategories"]>>,
             [mloc[s] EXCEPT !.cleared0 =
                [categories |-> cats, items |-> items, sizes |-> sizes]])
  /\ UNCHANGED <<db, cache, orderVars, faults>>

\* clearMenuData: SELECT id FROM menu_items WHERE category_id = ?
ClearSelectItems(s) ==
  /\ AtMTask(s, "clearSelectItems")
  /\ LET items == Ids(SelectSeq(db.menu_items, LAMBDA r : r.category_id = MTask(s).cat))
         PerItem(i) == <<[op |-> "deleteSizes", item |-> items[i]],
                         [op |-> "deleteItemGroups", item |-> items[i]]>>
         Loop[i \in 0..Len(items)] == IF i = 0 THEN <<>> ELSE Loop[i - 1] \o PerItem(i)
     IN Done(s, Loop[Len(items)], mloc[s])
  /\ UNCHANGED <<db, cache, orderVars, faults>>

\* clearMenuData: DELETE FROM menu_item_sizes WHERE item_id = ?
ClearSizes(s) ==
  /\ AtMTask(s, "deleteSizes")
  /\ db' = DeleteSizes(db, {MTask(s).item})
  /\ Done(s, <<>>, mloc[s])
  /\ UNCHANGED <<cache, orderVars, faults>>

\* clearMenuData: DELETE FROM menu_item_option_groups WHERE item_id = ?
ClearItemGroups(s) ==
  /\ AtMTask(s, "deleteItemGroups")
  /\ db' = DeleteItemGroups(db, {MTask(s).item})
  /\ Done(s, <<>>, mloc[s])
  /\ UNCHANGED <<cache, orderVars, faults>>

\* clearMenuData: DELETE FROM menu_items WHERE category_id = ?
ClearItems(s) ==
  /\ AtMTask(s, "deleteItems")
  /\ db' = DeleteItems(db, {MTask(s).cat})
  /\ Done(s, <<>>, mloc[s])
  /\ UNCHANGED <<cache, orderVars, faults>>

\* clearMenuData: DELETE FROM menu_categories WHERE menu_id = ?
ClearCategories(s) ==
  /\ AtMTask(s, "deleteCategories")
  /\ db' = DeleteCategories(db, mloc[s].menuId)
  /\ Done(s, <<>>, mloc[s])
  /\ UNCHANGED <<cache, orderVars, faults>>

\* processCategory: INSERT INTO menu_categories (menu_id REFERENCES menus(id))
ProcessCategory(s) ==
  /\ AtMTask(s, "category")
  /\ LET category == MTask(s).data
         id == NextId("menu_categories")
     IN /\ db' = [db EXCEPT !.menu_categories =
                    Append(@, [id |-> id, menu_id |-> mloc[s].menuId,
                               gloriafood_id |-> category.id, name |-> category.name,
                               sort_order |-> MTask(s).sort]),
                            !.sqlite_sequence.menu_categories = id]
        /\ Done(s, ItemTasksOf(id, category.items) \o GroupTasks(category.groups, NULL, NULL),
                [mloc[s] EXCEPT !.stats.categories = @ + 1])
  /\ UNCHANGED <<cache, orderVars, faults>>

\* processItem: INSERT INTO menu_items (category_id REFERENCES menu_categories(id))
ProcessItem(s) ==
  /\ AtMTask(s, "item")
  /\ LET item == MTask(s).data
         id == NextId("menu_items")
     IN IF \A c \in Rows(db.menu_categories) : c.id # MTask(s).categoryId
        THEN /\ Caught(s, "FOREIGN KEY constraint failed")
             /\ UNCHANGED db
        ELSE /\ db' = [db EXCEPT !.menu_items =
                         Append(@, [id |-> id, category_id |-> MTask(s).categoryId,
                                    gloriafood_id |-> item.id, name |-> item.name,
                                    sort_order |-> MTask(s).sort]),
                                 !.sqlite_sequence.menu_items = id]
             /\ Done(s, SizeTasks(id, item.sizes) \o GroupTasks(item.groups, Num(id), NULL),
                     [mloc[s] EXCEPT !.stats.items = @ + 1])
  /\ UNCHANGED <<cache, orderVars, faults>>

\* processSize: INSERT INTO menu_item_sizes (item_id REFERENCES menu_items(id))
ProcessSize(s) ==
  /\ AtMTask(s, "size")
  /\ LET size == MTask(s).data
         id == NextId("menu_item_sizes")
     IN IF \A r \in Rows(db.menu_items) : r.id # MTask(s).itemId
        THEN /\ Caught(s, "FOREIGN KEY constraint failed")
             /\ UNCHANGED db
        ELSE /\ db' = [db EXCEPT !.menu_item_sizes =
                         Append(@, [id |-> id, item_id |-> MTask(s).itemId,
                                    gloriafood_id |-> size.id, name |-> size.name,
                                    sort_order |-> MTask(s).sort]),
                                 !.sqlite_sequence.menu_item_sizes = id]
             /\ Done(s, GroupTasks(size.groups, NULL, Num(id)),
                     [mloc[s] EXCEPT !.stats.sizes = @ + 1])
  /\ UNCHANGED <<cache, orderVars, faults>>

\* processOptionGroup: SELECT id FROM menu_option_groups WHERE gloriafood_id = ?
SelectOptionGroup(s) ==
  /\ AtMTask(s, "groupSelect")
  /\ LET existing == OptionGroupsByGloriaFoodId(MTask(s).data.id)
         found == IF existing # {} THEN Num(First(existing).id) ELSE NULL
     IN Done(s, <<[op |-> "groupWrite", data |-> MTask(s).data, itemId |-> MTask(s).itemId,
                   sizeId |-> MTask(s).sizeId, existing |-> found]>>, mloc[s])
  /\ UNCHANGED <<db, cache, orderVars, faults>>

\* faulty variant: the options are written whether or not the group was found
AfterOptionGroupAlways(task, groupId) ==
  (IF ~Falsy(task.itemId) \/ ~Falsy(task.sizeId)
   THEN <<[op |-> "groupLink", groupId |-> groupId, itemId |-> task.itemId,
           sizeId |-> task.sizeId]>>
   ELSE <<>>)
  \o OptionTasks(groupId, task.data.options)

\* what follows the group's UPDATE or INSERT: the association row when an
\* item or a size is given, the options when the group was not found
AfterOptionGroup(task, groupId) ==
  (IF ~Falsy(task.itemId) \/ ~Falsy(task.sizeId)
   THEN <<[op |-> "groupLink", groupId |-> groupId, itemId |-> task.itemId,
           sizeId |-> task.sizeId]>>
   ELSE <<>>)
  \o (IF Falsy(task.existing) THEN OptionTasks(groupId, task.data.options) ELSE <<>>)

\* faulty variant: the UPDATE sets the name and the required flag only
UpdateOptionGroupNameOnly(s) ==
  /\ AtMTask(s, "groupWrite")
  /\ ~Falsy(MTask(s).existing)
  /\ LET group == MTask(s).data
         id == MTask(s).existing.v
     IN /\ db' = [db EXCEPT !.menu_option_groups[id].name = group.name,
                            !.menu_option_groups[id].required = Flag(Bool(group.required))]
        /\ Done(s, AfterOptionGroup(MTask(s), id), mloc[s])
  /\ UNCHANGED <<cache, orderVars, faults>>

\* processOptionGroup, group found: UPDATE menu_option_groups SET name = ?,
\* required = ?, ... WHERE id = ?
UpdateOptionGroup(s) ==
  /\ AtMTask(s, "groupWrite")
  /\ ~Falsy(MTask(s).existing)
  /\ LET group == MTask(s).data
         id == MTask(s).existing.v
     IN /\ db' = [db EXCEPT !.menu_option_groups[id].name = group.name,
                            !.menu_option_groups[id].required = Flag(Bool(group.required)),
                            !.menu_option_groups[id].allow_quantity =
                               Flag(Bool(group.allow_quantity)),
                            !.menu_option_groups[id].force_min = group.force_min,
                            !.menu_option_groups[id].force_max = group.force_max]
        /\ Done(s, AfterOptionGroup(MTask(s), id), mloc[s])
  /\ UNCHANGED <<cache, orderVars, faults>>

\* processOptionGroup, group not found: INSERT INTO menu_option_groups
InsertOptionGroup(s) ==
  /\ AtMTask(s, "groupWrite")
  /\ Falsy(MTask(s).existing)
  /\ LET group == MTask(s).data
         id == Len(db.menu_option_groups) + 1
     IN /\ db' = [db EXCEPT !.menu_option_groups =
                    Append(@, [id |-> id, gloriafood_id |-> group.id, name |-> group.name,
                               required |-> Flag(Bool(group.required)),
                               allow_quantity |-> Flag(Bool(group.allow_quantity)),
                               force_min |-> group.force_min,
                               force_max |-> group.force_max])]
        /\ Done(s, AfterOptionGroup(MTask(s), id),
                [mloc[s] EXCEPT !.stats.optionGroups = @ + 1])
  /\ UNCHANGED <<cache, orderVars, faults>>

\* processOptionGroup: INSERT OR IGNORE INTO menu_item_option_groups (item_id,
\* size_id, option_group_id); the table has no uniqueness constraint to ignore
\* a conflict on, and its foreign keys are checked
LinkOptionGroup(s) ==
  /\ AtMTask(s, "groupLink")
  /\ LET task == MTask(s)
         id == NextId("menu_item_option_groups")
         itemThere == task.itemId = NULL
                        \/ \E r \in Rows(db.menu_items) : Num(r.id) = task.itemId
         sizeThere == task.sizeId = NULL
                        \/ \E r \in Rows(db.menu_item_sizes) : Num(r.id) = task.sizeId
     IN IF itemThere /\ sizeThere
        THEN /\ db' = [db EXCEPT !.menu_item_option_groups =
                         Append(@, [id |-> id, item_id |-> task.itemId,
                                    size_id |-> task.sizeId,
                                    option_group_id |-> task.groupId]),
                                 !.sqlite_sequence.menu_item_option_groups = id]
             /\ Done(s, <<>>, mloc[s])
        ELSE /\ Caught(s, "FOREIGN KEY constraint failed")
             /\ UNCHANGED db
  /\ UNCHANGED <<cache, orderVars, faults>>

\* processOptionGroup: INSERT INTO menu_options (option_group_id, ..., sort_order)
InsertOption(s) ==
  /\ AtMTask(s, "option")
  /\ LET option == MTask(s).data
         id == Len(db.menu_options) + 1
     IN /\ db' = [db EXCEPT !.menu_options =
                    Append(@, [id |-> id, option_group_id |-> MTask(s).groupId,
                               gloriafood_id |-> option.id, name |-> option.name,
                               sort_order |-> MTask(s).sort])]
        /\ Done(s, <<>>, [mloc[s] EXCEPT !.stats.options = @ + 1])
  /\ UNCHANGED <<cache, orderVars, faults>>

\* UPDATE menus SET synced_at = CURRENT_TIMESTAMP WHERE id = ?
StampMenu(s) ==
  /\ AtMTask(s, "stamp")
  /\ db' = [db EXCEPT !.menus[mloc[s].menuId].synced_at = syncs]
  /\ Done(s, <<>>, mloc[s])
  /\ UNCHANGED <<cache, orderVars, faults>>

\* a sync that goes on without writing the cache
CachePutSkipped(s) ==
  /\ AtMTask(s, "cachePut")
  /\ Done(s, <<>>, mloc[s])
  /\ UNCHANGED <<db, cache, orderVars, faults>>

\* await this.cache.put('menu:full', JSON.stringify(menuData), ...)
CachePutMenu(s) ==
  /\ AtMTask(s, "cachePut")
  /\ cache' = [cache EXCEPT !.menu = Obj(mloc[s].menuData)]
  /\ Done(s, <<>>, mloc[s])
  /\ UNCHANGED <<db, orderVars, faults>>

\* logEvent: INSERT INTO webhook_logs (event_type, payload, status, error_message)
LogRow(eventType, payload, status, errorMessage) ==
  [id |-> Len(db.webhook_logs) + 1, event_type |-> eventType, payload |-> payload,
   status |-> status, error_message |-> JsOr(errorMessage, NULL)]

\* await this.logEvent('menu_sync', { stats }, 'success'); return { success: true, ... }
LogSyncSuccess(s) ==
  /\ AtMTask(s, "logSuccess")
  /\ db' = [db EXCEPT !.webhook_logs =
              Append(@, LogRow("menu_sync", [stats |-> mloc[s].stats], "success", UNDEF))]
  /\ Finish(s, TRUE, "")
  /\ UNCHANGED <<cache, orderVars, faults>>

\* catch (error): await this.logEvent('menu_sync', { error }, 'error', message);
\* throw error
LogSyncError(s) ==
  /\ mpc[s] = "catch"
  /\ db' = [db EXCEPT !.webhook_logs =
              Append(@, LogRow("menu_sync", [error |-> mloc[s].error], "error",
                               Str(mloc[s].error)))]
  /\ Finish(s, FALSE, mloc[s].error)
  /\ UNCHANGED <<cache, orderVars, faults>>

\* the tasks that read the store without writing it
ReadTasks == {"clearSelectCategories", "clearSelectItems", "groupSelect"}

\* the store (or, for the cache write, the cache) fails the write sync s is
\* about to issue inside the try block: the statement has no effect
SyncStoreFailure(s) ==
  /\ \/ mpc[s] \in {"updateMenu", "insertMenu"}
     \/ mpc[s] = "run" /\ MTask(s).op \notin ReadTasks
  /\ faults < MaxFaults
  /\ faults' = faults + 1
  /\ Caught(s, "store failure")
  /\ UNCHANGED <<db, cache, orderVars>>

\* the store fails the log entry of the catch block: the sync rejects with
\* that failure and no log row is written
SyncLogFailure(s) ==
  /\ mpc[s] = "catch"
  /\ faults < MaxFaults
  /\ faults' = faults + 1
  /\ Finish(s, FALSE, "store failure")
  /\ UNCHANGED <<db, cache, orderVars>>

\* the statements of syncMenu after a successful fetch, and the failing fetch
AfterFetchStep(s) ==
  \/ FetchMenuFails(s)
  \/ SelectMenu(s)
  \/ UpdateMenu(s)
  \/ InsertMenu(s)
  \/ ClearSelectCategories(s)
  \/ ClearSelectItems(s)
  \/ ClearSizes(s)
  \/ ClearItemGroups(s)
  \/ ClearItems(s)
  \/ ClearCategories(s)
  \/ ProcessCategory(s)
  \/ ProcessItem(s)
  \/ ProcessSize(s)
  \/ SelectOptionGroup(s)
  \/ UpdateOptionGroup(s)
  \/ InsertOptionGroup(s)
  \/ LinkOptionGroup(s)
  \/ InsertOption(s)
  \/ StampMenu(s)
  \/ CachePutMenu(s)
  \/ LogSyncSuccess(s)
  \/ LogSyncError(s)

SyncMenuStep(s) ==
  \/ FetchMenu(s)
  \/ AfterFetchStep(s)

-----------------------------------------------------------------------------
(* The order routes of the gateway: POST /webhook/orders (push) and        *)
(* POST /api/orders/poll (pull).  Route p runs its processOrder calls in   *)
(* slot p.                                                                 *)

\* gateway invocations of the order routes started in one behaviour
MaxBatches == 2

\* env.GLORIAFOOD_MASTER_KEY
GLORIAFOOD_MASTER_KEY == Str("key")

\* the Authorization header of a push delivery: absent, empty, the key, the
\* key behind a scheme, another key
AuthHeaders == {UNDEF, Str(""), Str("key"), Str("Bearer key"), Str("other")}

\* the orders of a pushed or pulled batch
Batches == {<<>>, <<OrderA>>, <<OrderC, OrderD>>, <<OrderC, OrderE, OrderA>>}

\* the count field of a pushed body: absent, or a number that need not be the
\* number of orders in the body
Counts == {UNDEF, Num(0), Num(3)}

\* JSON.stringify({ count, orders }): a count that is undefined is left out
SuccessPayload(count, results) ==
  IF count = UNDEF THEN [orders |-> results]
  ELSE [count |-> count, orders |-> results]

\* faulty variant: any header that is present passes
validateAnyHeader(authHeader, masterKey) == ~Falsy(authHeader)

\* GloriaFoodClient.validateWebhookRequest
validateWebhookRequest(authHeader, masterKey) ==
  IF Falsy(authHeader) \/ Falsy(masterKey) THEN FALSE ELSE authHeader = masterKey

\* no handler of an order route is running
GatewayIdle == \A p \in Procs : gw[p].at = "idle"

\* a request reaches route p: its handler starts
Arrive(p, at, auth, batch, count) ==
  /\ GatewayIdle
  /\ Len(ghist) < MaxBatches
  /\ gw' = [gw EXCEPT ![p] = [IdleGw EXCEPT !.at = at, !.auth = auth,
                                            !.payload = batch, !.batch = batch,
                                            !.count = count,
                                            !.logs0 = Len(db.webhook_logs),
                                            !.calls0 = calls]]
  /\ UNCHANGED <<db, cache, pc, loc, hist, calls, ghist, faults, menuVars>>

\* the handler of route p responds
Respond(p, status) ==
  /\ gw' = [gw EXCEPT ![p] = IdleGw]
  /\ ghist' = Append(ghist, [source |-> p, auth |-> gw[p].auth, status |-> status,
                             payload |-> gw[p].payload, results |-> gw[p].results,
                             error |-> gw[p].error,
                             \* c.json: data: results on success, no data otherwise
                             data |-> IF status = 200 THEN Arr(gw[p].results) ELSE UNDEF,
                             logged |-> SubSeq(db'.webhook_logs, gw[p].logs0 + 1,
                                               Len(db'.webhook_logs)),
                             calls |-> calls - gw[p].calls0])
  /\ UNCHANGED <<pc, loc, hist, calls>>

\* POST /webhook/orders: the Authorization header is validated against the
\* master key before the body is read
WebhookArrives ==
  \E auth \in AuthHeaders, batch \in Batches, count \in Counts :
    IF validateWebhookRequest(auth, GLORIAFOOD_MASTER_KEY)
    THEN Arrive("push", "loop", auth, batch, count)
    \* a rejected request's body is never read
    ELSE Arrive("push", "reject", auth, batch, UNDEF)

\* INSERT INTO webhook_logs ... ('order_received', 'unauthorized', 'error',
\* 'Invalid master key'); return 401
WebhookRejects ==
  /\ gw["push"].at = "reject"
  /\ db' = [db EXCEPT !.webhook_logs =
              Append(@, LogRow("order_received", "unauthorized", "error",
                               Str("Invalid master key")))]
  /\ Respond("push", 401)
  /\ UNCHANGED <<cache, faults, menuVars>>

\* for (const order of orders) { const result = await processOrder(order); ... }
CallProcessOrder(p) ==
  /\ gw[p].at = "loop"
  /\ gw[p].batch # <<>>
  /\ pc[p] = "idle"
  /\ Begin(p, Head(gw[p].batch))
  /\ gw' = [gw EXCEPT ![p].at = "call", ![p].batch = Tail(@)]
  /\ UNCHANGED ghist

\* INSERT INTO webhook_logs ... ('order_received', JSON.stringify({ count,
\* orders: results }), 'success'); return success
WebhookLogsSuccess ==
  /\ gw["push"].at = "loop"
  /\ gw["push"].batch = <<>>
  /\ db' = [db EXCEPT !.webhook_logs =
              Append(@, LogRow("order_received",
                               SuccessPayload(gw["push"].count, gw["push"].results),
                               "success", UNDEF))]
  /\ Respond("push", 200)
  /\ UNCHANGED <<cache, faults, menuVars>>

\* faulty variant: the catch block answers without logging
WebhookErrorUnlogged ==
  /\ gw["push"].at = "catch"
  /\ UNCHANGED <<db, cache, faults, menuVars>>
  /\ Respond("push", 500)

\* catch (error): INSERT INTO webhook_logs ... ('order_received', 'error',
\* 'error', errorMessage); return 500
WebhookLogsError ==
  /\ gw["push"].at = "catch"
  /\ db' = [db EXCEPT !.webhook_logs =
              Append(@, LogRow("order_received", "error", "error", Str(gw["push"].error)))]
  /\ Respond("push", 500)
  /\ UNCHANGED <<cache, faults, menuVars>>

\* POST /api/orders/poll, behind authMiddleware: the handler calls pollOrders()
PollArrives == Arrive("pull", "poll", UNDEF, <<>>, UNDEF)

\* const response = await gloriaFood.pollOrders(): the platform pops its queue
PollOrders ==
  /\ gw["pull"].at = "poll"
  /\ \E batch \in Batches :
       gw' = [gw EXCEPT !["pull"].at = "loop", !["pull"].payload = batch,
                        !["pull"].batch = batch]
  /\ UNCHANGED <<db, cache, pc, loc, hist, calls, ghist, faults, menuVars>>

\* pollOrders: if (!response.ok) throw new Error(`Error polling orders: ...`)
PollOrdersFails ==
  /\ gw["pull"].at = "poll"
  /\ gw' = [gw EXCEPT !["pull"].at = "catch", !["pull"].error = "Error polling orders"]
  /\ UNCHANGED <<db, cache, pc, loc, hist, calls, ghist, faults, menuVars>>

\* return success, with the results
PollResponds ==
  /\ gw["pull"].at = "loop"
  /\ gw["pull"].batch = <<>>
  /\ UNCHANGED <<db, cache, faults, menuVars>>
  /\ Respond("pull", 200)

\* catch (error): return 500 with the message
PollRespondsError ==
  /\ gw["pull"].at = "catch"
  /\ UNCHANGED <<db, cache, faults, menuVars>>
  /\ Respond("pull", 500)

GatewayStep ==
  \/ WebhookArrives
  \/ WebhookRejects
  \/ WebhookLogsSuccess
  \/ WebhookLogsError
  \/ PollArrives
  \/ PollOrders
  \/ PollOrdersFails
  \/ PollResponds
  \/ PollRespondsError
  \/ \E p \in Procs : CallProcessOrder(p)

Init ==
  /\ db = EmptyDb
  /\ cache = EmptyCache
  /\ pc = [p \in Procs |-> "idle"]
  /\ loc = [p \in Procs |-> IdleLoc]
  /\ hist = <<>>
  /\ calls = 0
  /\ faults = 0
  /\ mpc = [s \in Syncers |-> "idle"]
  /\ mloc = [s \in Syncers |-> IdleSync]
  /\ mhist = <<>>
  /\ syncs = 0
  /\ gw = [p \in Procs |-> IdleGw]
  /\ ghist = <<>>
  /\ reader = IdleReader
  /\ mreader = IdleMenuReader
  /\ now = 0

\* Sequential order ingestion, as within one pushed or pulled batch: one
\* invocation at a time, with store failures and dashboard reads in between
NextOrders ==
  \/ reader.at = "idle" /\ \E order \in Orders : Start("push", order, MaxCalls)
  \/ ProcessOrderStep("push")
  \/ StoreFailure("push")
  \/ pc["push"] = "idle" /\ GetDashboardStatsStep
  \/ pc["push"] = "idle" /\ StatsCacheExpires

SpecOrders == Init /\ [][NextOrders]_vars

\* Order ingestion, one invocation at a time, with client updates through
\* PUT /api/clients/:id falling between its statements
NextClients ==
  \/ \E order \in Orders : Start("push", order, MaxRacing)
  \/ ProcessOrderStep("push")
  \/ ClientsUpdateClient

SpecClients == Init /\ [][NextClients]_vars

\* Order ingestion over several days, one invocation at a time, with
\* dashboard reads whose statements interleave with it
NextDashboard ==
  \/ \E order \in Orders : Start("push", order, MaxRacing)
  \/ ProcessOrderStep("push")
  \/ GetDashboardStatsStep
  \/ StatsCacheExpires
  \/ ClockAdvances

SpecDashboard == Init /\ [][NextDashboard]_vars

\* Concurrent order ingestion: a push delivery and a manual pull in flight
\* together, interleaving between statements
NextRace ==
  \/ \E p \in Procs, order \in Orders : Start(p, order, MaxRacing)
  \/ \E p \in Procs : ProcessOrderStep(p)

SpecRace == Init /\ [][NextRace]_vars

-----------------------------------------------------------------------------
(* Properties of order ingestion *)

\* the dedup key of a payload
KeyRows(order) == OrdersByKey(order.id, PosOf(order))

\* C1 (idempotence of processOrder): when processOrder is called twice in
\* sequence with the same payload and the first call returns, the second call
\* returns the same internal order id with isNew = false, the first call
\* reported isNew = true if the order was not stored before it, and exactly one
\* order row carries the payload's (external id, pos id).
C1_Idempotent ==
  \A i \in 1..(Len(hist) - 1) :
    LET first == hist[i]
        second == hist[i + 1]
    IN (first.order = second.order /\ first.ok)
         => /\ first.fresh => first.isNew
            /\ first.isNew => <<"orders", first.orderId>> \in first.writes
            /\ second.ok
            /\ ~second.isNew
            /\ second.orderId = first.orderId
            /\ Cardinality(KeyRows(first.order)) = 1

\* C1 happens: a payload was ingested as new and then again as a duplicate
C1_TwiceInSequence ==
  /\ Len(hist) = 2
  /\ hist[1].order = hist[2].order
  /\ hist[1].ok /\ hist[1].isNew
  /\ hist[2].ok /\ ~hist[2].isNew
  /\ hist[2].orderId = hist[1].orderId

\* C2 (dedup key independence): of two ingested orders with the same external
\* order id, those with different pos-system ids are stored as two distinct
\* rows, each reported isNew = true when its key was not stored before; those
\* with the same pos-system id are one order, whatever else the payloads hold.
C2_KeyIndependence ==
  \A i, j \in 1..Len(hist) :
    LET a == hist[i]
        b == hist[j]
    IN (i < j /\ a.ok /\ b.ok /\ a.order.id = b.order.id)
         => IF PosOf(a.order) # PosOf(b.order)
            THEN /\ a.orderId # b.orderId
                 /\ db.orders[a.orderId].pos_system_id = PosOf(a.order)
                 /\ db.orders[b.orderId].pos_system_id = PosOf(b.order)
                 /\ a.fresh => a.isNew
                 /\ b.fresh => b.isNew
            ELSE /\ a.orderId = b.orderId
                 /\ ~b.isNew
                 /\ Cardinality(KeyRows(a.order)) = 1

\* C2 happens: after OrderA, the same external id under pos-system id 1 was
\* stored as a second order, and OrderC (OrderA's key, other content) was
\* taken for OrderA
C2_TwoKeysOneId ==
  /\ Len(db.orders) = 2
  /\ db.orders[1].raw_payload = OrderA
  /\ db.orders[2].raw_payload = OrderB
  /\ Len(hist) = 2
  /\ hist[1].order = OrderB /\ hist[1].ok /\ hist[1].isNew /\ hist[1].orderId = 2
  /\ hist[2].order = OrderC /\ hist[2].ok /\ ~hist[2].isNew /\ hist[2].orderId = 1

\* C3 (order uniqueness invariant): in every reachable store state no two
\* order rows share the same (external order id, pos-system id).
C3_OrderUniqueness ==
  \A i, j \in 1..Len(db.orders) :
    (/\ db.orders[i].gloriafood_id = db.orders[j].gloriafood_id
     /\ db.orders[i].pos_system_id = db.orders[j].pos_system_id) => i = j

\* C3 happens: two concurrent ingests both passed the dedup lookup and both
\* reached the INSERT for one key
C3_BothReachedInsert ==
  \E i \in 1..Len(hist) :
    /\ hist[i].fresh
    /\ hist[i].at = "insertOrder"
    /\ Cardinality(KeyRows(hist[i].order)) = 1

\* C4 (dedup race resolution), as the claim states it: a concurrent ingest
\* that loses the race for a key does not error; it returns the winner's
\* order id with isNew = false.
C4_LoserReturnsWinner ==
  \A i \in 1..Len(hist) :
    LET h == hist[i]
    IN (h.fresh /\ h.at = "insertOrder" /\ KeyRows(h.order) # {})
         => /\ h.ok
            /\ ~h.isNew
            /\ h.orderId = First(KeyRows(h.order)).id

\* C5 (order unit-of-work atomicity), as the claim states it: an ingest that
\* fails leaves none of the rows it wrote.
C5_FailedLeavesNothing ==
  \A i \in 1..Len(hist) : ~hist[i].ok => hist[i].writes = {}

\* C6 (duplicate ingest is write-free): every step of an ingest whose key was
\* stored when it started leaves the store and the cache as they are, and
\* ends the ingest.
C6_DuplicateWriteFree ==
  [][\A p \in Procs :
       (pc[p] # "idle" /\ ~loc[p].fresh /\ pc'[p] # pc[p])
         => /\ db' = db
            /\ cache' = cache
            /\ pc'[p] = "idle"
            /\ hist'[Len(hist')].ok
            /\ ~hist'[Len(hist')].isNew
            /\ hist'[Len(hist')].writes = {}]_vars

\* C6 happens: a duplicate was ingested while the dashboard cache was filled,
\* and the cache is still filled
C6_DuplicateWithCache ==
  /\ hist # <<>>
  /\ ~hist[Len(hist)].fresh
  /\ hist[Len(hist)].ok
  /\ pc["push"] = "idle"
  /\ cache.stats # NULL

\* the value a client field has after the merge the claim describes
Merged(supplied, stored) ==
  IF supplied.t \in {"undefined", "null"} THEN stored ELSE supplied

\* C7 (non-destructive client merge), as the claim states it: after a new
\* order of a stored client was ingested, each of the client's first name,
\* last name, email and phone is the payload's value when the payload supplies
\* one, and the value stored before otherwise.
C7_ClientMerged ==
  (pc["push"] = "idle" /\ hist # <<>>)
    => LET h == hist[Len(hist)]
           stored == h.client0.v
           row == db.clients[stored.id]
       IN (h.fresh /\ h.client0 # NULL /\ h.error # "store failure")
            => /\ row.first_name = Merged(h.order.client_first_name, stored.first_name)
               /\ row.last_name = Merged(h.order.client_last_name, stored.last_name)
               /\ row.email = Merged(h.order.client_email, stored.email)
               /\ row.phone = Merged(h.order.client_phone, stored.phone)

\* the store as the first ingested order leaves it: its restaurant, the order
\* and the order's item
SeededDb ==
  [EmptyDb EXCEPT
     !.restaurants = <<[id |-> 1, gloriafood_id |-> OrderA.restaurant_id,
                        restaurant_key |-> OrderA.restaurant_key,
                        name |-> OrderA.restaurant_name]>>,
     !.orders = <<OrderRow(1, OrderA, NULL, 1, 0)>>,
     !.order_items = <<[id |-> 1, order_id |-> 1, name |-> Burger.name,
                        type |-> Burger.type, total_price |-> Burger.total_item_price]>>]

\* Menu synchronisation starts from a fresh store or from one that has
\* ingested an order
InitMenu ==
  /\ db \in {EmptyDb, SeededDb}
  /\ cache = EmptyCache
  /\ pc = [p \in Procs |-> "idle"]
  /\ loc = [p \in Procs |-> IdleLoc]
  /\ hist = <<>>
  /\ calls = 0
  /\ faults = 0
  /\ mpc = [s \in Syncers |-> "idle"]
  /\ mloc = [s \in Syncers |-> IdleSync]
  /\ mhist = <<>>
  /\ syncs = 0
  /\ gw = [p \in Procs |-> IdleGw]
  /\ ghist = <<>>
  /\ reader = IdleReader
  /\ mreader = IdleMenuReader
  /\ now = 0

\* Sequential menu synchronisation: one sync at a time, with store failures,
\* and, between syncs, cache expiry and menu reads that finish before the
\* next sync starts
NextMenu ==
  \/ mreader.at = "idle" /\ StartSync("manual", MaxSyncs)
  \/ SyncMenuStep("manual")
  \/ SyncStoreFailure("manual")
  \/ SyncLogFailure("manual")
  \/ mpc["manual"] = "idle" /\ syncs < MaxSyncs /\ GetFullMenuStep
  \/ mpc["manual"] = "idle" /\ MenuCacheExpires

SpecMenu == InitMenu /\ [][NextMenu]_vars

\* Menu reads in flight together with the timed sync: the statements of
\* getFullMenu interleave with those of syncMenu
NextMenuRead ==
  \/ StartSync("cron", MaxSyncs)
  \/ FetchMenuFrom("cron", {MenuV1, MenuV2})
  \/ AfterFetchStep("cron")
  \/ GetFullMenuStep
  \/ MenuCacheExpires

SpecMenuRead == InitMenu /\ [][NextMenuRead]_vars

\* the store and the cache as OrderA's ingestion followed by a successful sync
\* of the empty menu MenuV3 leaves them
SyncedDb ==
  [SeededDb EXCEPT
     !.menus = <<[id |-> 1, restaurant_id |-> MenuV3.restaurant_id,
                  gloriafood_id |-> MenuV3.id, currency |-> MenuV3.currency,
                  active |-> Flag(Bool(MenuV3.active)), synced_at |-> 1]>>,
     !.webhook_logs = <<[id |-> 1, event_type |-> "menu_sync",
                         payload |-> [stats |-> ZeroStats], status |-> "success",
                         error_message |-> NULL]>>]

SyncedCache == [stats |-> NULL, menu |-> Obj(MenuV3)]

\* The order routes start on a fresh deployment or on one with a synced and
\* cached menu
InitGateway ==
  /\ \/ db = EmptyDb /\ cache = EmptyCache
     \/ db = SyncedDb /\ cache = SyncedCache
  /\ pc = [p \in Procs |-> "idle"]
  /\ loc = [p \in Procs |-> IdleLoc]
  /\ hist = <<>>
  /\ calls = 0
  /\ faults = 0
  /\ mpc = [s \in Syncers |-> "idle"]
  /\ mloc = [s \in Syncers |-> IdleSync]
  /\ mhist = <<>>
  /\ syncs = 0
  /\ gw = [p \in Procs |-> IdleGw]
  /\ ghist = <<>>
  /\ reader = IdleReader
  /\ mreader = IdleMenuReader
  /\ now = 0

\* The order routes, one request at a time: pushed and pulled batches, with
\* dashboard reads in between
NextGateway ==
  \/ reader.at = "idle" /\ GatewayStep
  \/ \E p \in Procs : ProcessOrderStep(p)
  \/ GatewayIdle /\ GetDashboardStatsStep

SpecGateway == InitGateway /\ [][NextGateway]_vars

-----------------------------------------------------------------------------
(* Properties of menu synchronisation *)

\* the sync that finished last
LastSync == mhist[Len(mhist)]

\* no sync is running and the last one succeeded: the store is as it left it
Synced == mpc["manual"] = "idle" /\ mhist # <<>> /\ LastSync.ok

\* the external ids of a sequence of groups, options, ...
ExternalIds(xs) == {xs[i].id : i \in 1..Len(xs)}

\* the items of a snapshot and the sizes of its items, as sets
SnapshotItems(menuData) ==
  UNION {Rows(menuData.categories[i].items) : i \in 1..Len(menuData.categories)}
SnapshotSizes(menuData) == UNION {Rows(item.sizes) : item \in SnapshotItems(menuData)}

\* the option groups a snapshot names, at category, item or size level
SnapshotGroups(menuData) ==
  UNION ({Rows(menuData.categories[i].groups) : i \in 1..Len(menuData.categories)}
           \cup {Rows(x.groups) : x \in SnapshotItems(menuData) \cup SnapshotSizes(menuData)})

\* the items and sizes of a snapshot that reference the group with external id gid
Referrers(menuData, gid) ==
  {x \in SnapshotItems(menuData) \cup SnapshotSizes(menuData) : gid \in ExternalIds(x.groups)}

\* the stored options of a group row, in sort order, by external id
StoredOptionIds(groupId) ==
  LET options == OrderBySortOrder({o \in Rows(db.menu_options) : o.option_group_id = groupId})
  IN [i \in 1..Len(options) |-> options[i].gloriafood_id]

\* C8 (shared option group identity within one sync): after a successful sync
\* of a snapshot in which two items reference an option group that was not
\* stored before, there is exactly one row for the group, its options are
\* stored exactly once, and exactly two association rows point to it.
C8_SharedGroupOnce ==
  Synced =>
    \A group \in SnapshotGroups(LastSync.menuData) :
      (/\ group.id \notin LastSync.before
       /\ Cardinality(Referrers(LastSync.menuData, group.id)) = 2)
        => /\ Cardinality(OptionGroupsByGloriaFoodId(group.id)) = 1
           /\ LET row == First(OptionGroupsByGloriaFoodId(group.id))
              IN /\ StoredOptionIds(row.id) = [i \in 1..Len(group.options) |-> group.options[i].id]
                 /\ Cardinality({r \in Rows(db.menu_item_option_groups) :
                                   r.option_group_id = row.id}) = 2

\* C8 happens: MenuV1, whose two items share group 9, was synced into a store
\* that did not hold group 9
C8_TwoItemsShareGroup ==
  /\ Synced
  /\ LastSync.menuData = MenuV1
  /\ Toppings.id \notin LastSync.before
  /\ Referrers(MenuV1, Toppings.id) = {BurgerItem, FriesItem}
  /\ Cardinality(OptionGroupsByGloriaFoodId(Toppings.id)) = 1

\* C9 (option-group uniqueness): after any sequence of completed syncs at
\* most one option-group row exists per external group id.
C9_GroupUniqueness ==
  \A g, h \in Rows(db.menu_option_groups) : g.gloriafood_id = h.gloriafood_id => g.id = h.id

\* C9 happens: two syncs completed, both naming group 9, the second one
\* finding it stored
C9_GroupSyncedTwice ==
  /\ Len(mhist) = 2
  /\ mhist[1].ok /\ mhist[2].ok
  /\ Toppings.id \in {g.id : g \in SnapshotGroups(mhist[1].menuData)}
  /\ Toppings.id \in {g.id : g \in SnapshotGroups(mhist[2].menuData)}
  /\ Toppings.id \in mhist[2].before
  /\ mpc["manual"] = "idle"

\* what a snapshot gives a category: its external id and name, its items in
\* order, each with its sizes in order and its own option groups with their
\* options in order.  The options of the groups in hidden are left out.
SnapshotOptions(group, hidden) ==
  IF group.id \in hidden THEN <<>>
  ELSE [i \in 1..Len(group.options) |->
          [id |-> group.options[i].id, name |-> group.options[i].name]]

SnapshotGroup(group, hidden) ==
  [id |-> group.id, name |-> group.name, required |-> Flag(Bool(group.required)),
   options |-> SnapshotOptions(group, hidden)]

SnapshotItem(item, hidden) ==
  [id |-> item.id, name |-> item.name,
   sizes |-> [i \in 1..Len(item.sizes) |-> [id |-> item.sizes[i].id, name |-> item.sizes[i].name]],
   groups |-> [i \in 1..Len(item.groups) |-> SnapshotGroup(item.groups[i], hidden)]]

SnapshotCategory(category, hidden) ==
  [id |-> category.id, name |-> category.name,
   items |-> [i \in 1..Len(category.items) |-> SnapshotItem(category.items[i], hidden)]]

SnapshotCategories(menuData, hidden) ==
  {SnapshotCategory(menuData.categories[i], hidden) : i \in 1..Len(menuData.categories)}

\* the same of what getFullMenu builds from the store
RetrievedOptions(group, hidden) ==
  IF group.gloriafood_id \in hidden THEN <<>>
  ELSE [i \in 1..Len(group.options) |->
          [id |-> group.options[i].gloriafood_id, name |-> group.options[i].name]]

RetrievedGroup(group, hidden) ==
  [id |-> group.gloriafood_id, name |-> group.name, required |-> group.required,
   options |-> RetrievedOptions(group, hidden)]

RetrievedItem(item, hidden) ==
  [id |-> item.gloriafood_id, name |-> item.name,
   sizes |-> [i \in 1..Len(item.sizes) |->
                [id |-> item.sizes[i].gloriafood_id, name |-> item.sizes[i].name]],
   groups |-> [i \in 1..Len(item.groups) |-> RetrievedGroup(item.groups[i], hidden)]]

RetrievedCategory(category, hidden) ==
  [id |-> category.gloriafood_id, name |-> category.name,
   items |-> [i \in 1..Len(category.items) |-> RetrievedItem(category.items[i], hidden)]]

RetrievedCategories(hidden) ==
  IF FullMenuFromStore = NULL THEN {}
  ELSE LET categories == FullMenuFromStore.v.categories
       IN {RetrievedCategory(categories[i], hidden) : i \in 1..Len(categories)}

\* the categories getCategories lists and those a snapshot holds, each by
\* external id, name and number of items
ListedCategories ==
  {[id |-> getCategories[i].gloriafood_id, name |-> getCategories[i].name,
    item_count |-> getCategories[i].item_count] : i \in 1..Len(getCategories)}

SnapshotListing(menuData) ==
  {[id |-> menuData.categories[i].id, name |-> menuData.categories[i].name,
    item_count |-> Len(menuData.categories[i].items)] : i \in 1..Len(menuData.categories)}

\* C10 (menu rebuild completeness), as the claim states it: after a successful
\* sync the categories retrievable from the store are exactly those of the
\* most recent snapshot, each with the items, sizes, option groups and options
\* that snapshot gives it.
C10_RetrievedIsLatestSnapshot ==
  Synced => /\ ListedCategories = SnapshotListing(LastSync.menuData)
            /\ RetrievedCategories({}) = SnapshotCategories(LastSync.menuData, {})

\* C10 (menu rebuild completeness), as the code has it: after a successful
\* sync into a store that holds that one menu only, the categories
\* getCategories lists, and those getFullMenu builds on a cache miss, are
\* exactly the categories of the most recent snapshot, each with the items,
\* sizes and item-level option groups the snapshot gives it; an option group
\* the sync stored for the first time has the snapshot's options (one stored
\* before keeps the options it had).
C10_RetrievedIsLatestSnapshotOfOneMenu ==
  (Synced /\ Len(db.menus) = 1)
    => /\ ListedCategories = SnapshotListing(LastSync.menuData)
       /\ RetrievedCategories(LastSync.before)
            = SnapshotCategories(LastSync.menuData, LastSync.before)

\* C10 happens: the menu was synced as MenuV1 and then as MenuV2, which drops
\* a category, adds two and edits a stored option group
C10_MenuReplaced ==
  /\ Synced
  /\ Len(db.menus) = 1
  /\ Len(mhist) = 2
  /\ mhist[1].ok
  /\ mhist[1].menuData = MenuV1
  /\ mhist[2].menuData = MenuV2
  /\ Toppings.id \in LastSync.before

-----------------------------------------------------------------------------
(* The menu cache                                                          *)

\* what getFullMenu returns in the current state: the cached value if there is
\* one, else the menu built from the store
getFullMenu == IF cache.menu # NULL THEN cache.menu ELSE FullMenuFromStore

\* C11 (menu cache coherence): when a sync returns successfully and the cache
\* held, at its start, a value V other than the serialisation of the snapshot
\* this sync fetched, a getFullMenu call made right after the return does not
\* return V.
C11_CacheCoherent ==
  [][\A s \in Syncers :
       (/\ AtMTask(s, "logSuccess")
        /\ mpc'[s] = "idle"
        /\ mloc[s].cached0 # NULL
        /\ mloc[s].cached0 # Obj(mloc[s].menuData))
         => getFullMenu' # mloc[s].cached0]_vars

\* a successful sync of a snapshot other than the cached one
C11_StaleValueReplaced ==
  /\ Synced
  /\ LastSync.cached0 # NULL
  /\ LastSync.cached0 # Obj(LastSync.menuData)
  /\ cache.menu = Obj(LastSync.menuData)

-----------------------------------------------------------------------------
(* Failing syncs                                                           *)

\* the seven tables of the menu
MenuTables ==
  <<db.menus, db.menu_categories, db.menu_items, db.menu_item_sizes,
    db.menu_item_option_groups, db.menu_option_groups, db.menu_options>>

\* a step of a sync whose fetch fails or has failed: the failing fetch, or a
\* step of the catch block that holds the fetch's error
AfterFailedFetch(s) ==
  \/ mpc[s] = "fetch" /\ mpc'[s] = "catch"
  \/ mpc[s] = "catch" /\ mloc[s].error = "Error fetching menu"

\* the step on which the fetch of a sync fails and every later step of that
\* sync leave the seven menu tables and the cached menu as they are, and the
\* sync ends as failed
FetchFailureLeavesMenu ==
  [][\A s \in Syncers :
       AfterFailedFetch(s)
         => /\ MenuTables' = MenuTables
            /\ cache'.menu = cache.menu
            /\ mpc'[s] = "idle" => ~LastSync'.ok]_vars

\* C12 (fetch failure is mutation-free): the step on which the fetch of a sync
\* fails and every later step of that sync leave the seven menu tables and the
\* cached menu as they are, and the sync ends as failed with the error of the
\* fetch.
C12_FetchFailureMutationFree ==
  [][\A s \in Syncers :
       AfterFailedFetch(s)
         => /\ MenuTables' = MenuTables
            /\ cache'.menu = cache.menu
            /\ mpc'[s] = "catch" => mloc'[s].error = "Error fetching menu"
            /\ mpc'[s] = "idle" =>
                 /\ ~LastSync'.ok
                 /\ LastSync'.error = "Error fetching menu"]_vars

\* the stored categories with everything below them, as getFullMenu builds them
StoredTree(full) == IF full = NULL THEN <<>> ELSE full.v.categories

\* C13 (sync atomicity on failure): after a failed sync, what getCategories
\* and getFullMenu (from the store) retrieve is what they retrieved when the
\* sync started.
C13_FailedSyncKeepsTree ==
  (mpc["manual"] = "idle" /\ mhist # <<>> /\ ~LastSync.ok)
    => /\ getCategories = LastSync.listed0
       /\ StoredTree(FullMenuFromStore) = StoredTree(LastSync.full0)

-----------------------------------------------------------------------------
(* The order of the snapshot                                               *)

\* the stored rows of the last synced menu's categories with external id gid
StoredCategories(gid) ==
  {c \in Rows(db.menu_categories) : c.menu_id = LastSync.menuId /\ c.gloriafood_id = gid}

\* the stored rows of the items with external id gid in the category row cat
StoredItems(cat, gid) ==
  {r \in Rows(db.menu_items) : r.category_id = cat.id /\ r.gloriafood_id = gid}

\* C19 (snapshot order preservation): after a successful sync the sort_order
\* stored for the categories of the menu is strictly increasing in the order
\* of the snapshot, and so is the sort_order of the items of each category.
C19_SortOrderFollowsSnapshot ==
  Synced =>
    LET categories == LastSync.menuData.categories
    IN /\ \A i, j \in 1..Len(categories) :
            i < j => \A a \in StoredCategories(categories[i].id),
                        b \in StoredCategories(categories[j].id) : a.sort_order < b.sort_order
       /\ \A k \in 1..Len(categories) :
            \A cat \in StoredCategories(categories[k].id) :
              \A i, j \in 1..Len(categories[k].items) :
                i < j => \A a \in StoredItems(cat, categories[k].items[i].id),
                            b \in StoredItems(cat, categories[k].items[j].id) :
                           a.sort_order < b.sort_order

-----------------------------------------------------------------------------
(* The options of a stored group                                           *)

\* the rows of an options table that belong to the group with external id gid
OptionRowsOf(options, gid) ==
  {o \in Rows(options) :
     o.option_group_id \in {g.id : g \in OptionGroupsByGloriaFoodId(gid)}}

\* C20 (options are written only for newly created groups): when a sync has
\* returned, every group its snapshot references that was stored before the
\* sync has the option rows it had when the sync started; and when the sync
\* succeeded, every group it stored for the first time has one option row per
\* option the snapshot lists for it, in the snapshot's order.
C20_OptionsOnlyForNewGroups ==
  (mpc["manual"] = "idle" /\ mhist # <<>>) =>
    \A group \in SnapshotGroups(LastSync.menuData) :
      /\ group.id \in LastSync.before =>
           OptionRowsOf(db.menu_options, group.id) = OptionRowsOf(LastSync.options0, group.id)
      /\ (LastSync.ok /\ group.id \notin LastSync.before) =>
           \A row \in OptionGroupsByGloriaFoodId(group.id) :
             StoredOptionIds(row.id) = [i \in 1..Len(group.options) |-> group.options[i].id]

\* a successful sync whose snapshot lists three options for a group stored
\* before with two, and references a group that was not stored
C20_EditedGroupAndNewGroup ==
  /\ Synced
  /\ \E group \in SnapshotGroups(LastSync.menuData) :
       /\ group.id \in LastSync.before
       /\ Len(group.options) = 3
       /\ Cardinality(OptionRowsOf(db.menu_options, group.id)) = 2
  /\ \E group \in SnapshotGroups(LastSync.menuData) :
       /\ group.id \notin LastSync.before
       /\ OptionRowsOf(db.menu_options, group.id) # {}

-----------------------------------------------------------------------------
(* Overlapping syncs                                                       *)

\* syncMenu invocations started in one concurrent behaviour
MaxRacingSyncs == 2

\* The manual sync (POST /api/menu/sync) and the timed sync (scheduled) call
\* syncMenu with nothing between them: the statements of the two interleave
NextSyncRace ==
  \E s \in Syncers :
    \/ StartSync(s, MaxRacingSyncs)
    \/ FetchMenuFrom(s, RaceSnapshots)
    \/ AfterFetchStep(s)

InitSyncRace == InitMenu /\ db = SeededDb

SpecSyncRace == InitSyncRace /\ [][NextSyncRace]_vars

\* sync s is between the first statement of clearMenuData and the last
\* statement of the last processCategory
Rebuilding(s) ==
  mpc[s] = "run" /\ MTask(s).op \notin {"stamp", "cachePut", "logSuccess"}

\* the external ids of the stored categories of a menu row, in id order
StoredCategoryIds(menuId) ==
  LET categories == SelectSeq(db.menu_categories, LAMBDA c : c.menu_id = menuId)
  IN [i \in 1..Len(categories) |-> categories[i].gloriafood_id]

\* the stored categories of the menu are those of the snapshot, each once
HoldsCategoriesOf(menuId, menuData) ==
  /\ Len(StoredCategoryIds(menuId)) = Len(menuData.categories)
  /\ Rows(StoredCategoryIds(menuId)) = ExternalIds(menuData.categories)

\* C14 (sync mutual exclusion): two syncs of one menu are never both in their
\* rebuilding phase, and after two successful syncs of one menu the stored
\* categories are those of one of the two snapshots, each once.
C14_SyncsExcludeEachOther ==
  /\ ~(/\ Rebuilding("manual")
        /\ Rebuilding("cron")
        /\ mloc["manual"].menuId = mloc["cron"].menuId)
  /\ (/\ \A s \in Syncers : mpc[s] = "idle"
      /\ Len(mhist) = 2
      /\ mhist[1].ok /\ mhist[2].ok
      /\ mhist[1].menuId = mhist[2].menuId)
       => \E i \in 1..2 : HoldsCategoriesOf(mhist[i].menuId, mhist[i].menuData)

-----------------------------------------------------------------------------
(* The order routes                                                        *)

\* C15 (push authentication): the handler of a push delivery goes on to the
\* batch exactly when the Authorization value equals the configured master
\* key; otherwise the one step it takes appends one error record to the
\* event log, changes no other table and no cache entry, starts no
\* processOrder invocation, and answers 401.
C15_PushAuthenticated ==
  [][/\ (gw["push"].at = "idle" /\ gw'["push"].at # "idle") =>
          /\ gw'["push"].at \in {"loop", "reject"}
          /\ gw'["push"].at = "loop" <=> gw'["push"].auth = GLORIAFOOD_MASTER_KEY
     /\ (gw["push"].at = "reject" /\ gw'["push"] # gw["push"]) =>
          /\ gw'["push"].at = "idle"
          /\ [db' EXCEPT !.webhook_logs = db.webhook_logs] = db
          /\ Len(db'.webhook_logs) = Len(db.webhook_logs) + 1
          /\ SubSeq(db'.webhook_logs, 1, Len(db.webhook_logs)) = db.webhook_logs
          /\ db'.webhook_logs[Len(db'.webhook_logs)].status = "error"
          /\ cache' = cache
          /\ calls' = calls
          /\ pc' = pc
          /\ ghist'[Len(ghist')].status = 401]_vars

\* a push delivery of a batch with orders was rejected for a header that is
\* not the key, after another batch had stored orders and the dashboard
\* aggregate was cached
C15_WrongKeyRejected ==
  /\ Len(ghist) = 2
  /\ ghist[2].source = "push"
  /\ ghist[2].status = 401
  /\ ghist[2].auth = Str("Bearer key")
  /\ ghist[2].payload # <<>>
  /\ ghist[2].calls = 0
  /\ Len(ghist[2].logged) = 1
  /\ db.orders # <<>>
  /\ cache.stats # NULL

\* the dedup key of an order payload
KeyOf(order) == <<order.id, PosOf(order)>>

\* C16 (source-agnostic dedup): when an order for which one route returned a
\* result is then delivered by the other route and accepted there, the second
\* delivery does not fail at it and returns is_new = false with the internal id the first
\* returned, and exactly one order row carries its key.
C16_SourceAgnosticDedup ==
  \A i, j \in 1..Len(ghist) :
    (i < j /\ ghist[i].source # ghist[j].source /\ ghist[j].status # 401) =>
      \A k \in 1..Len(ghist[i].results), l \in 1..Len(ghist[j].payload) :
        (/\ KeyOf(ghist[i].payload[k]) = KeyOf(ghist[j].payload[l])
         /\ Len(ghist[j].results) >= l - 1)
          => /\ Len(ghist[j].results) >= l
             /\ ~ghist[j].results[l].is_new
             /\ ghist[j].results[l].internal_id = ghist[i].results[k].internal_id
             /\ Cardinality(KeyRows(ghist[j].payload[l])) = 1

\* an order was pulled as new and then pushed
C16_PulledThenPushed ==
  /\ Len(ghist) = 2
  /\ ghist[1].source = "pull" /\ ghist[2].source = "push"
  /\ ghist[1].status = 200 /\ ghist[2].status = 200
  /\ ghist[1].payload = <<OrderA>> /\ ghist[2].payload = <<OrderA>>
  /\ ghist[1].results[1].is_new
  /\ ~ghist[2].results[1].is_new

\* C17 (audit logging): every finished invocation of an order route has
\* appended exactly one record to the event log, with status success when it
\* answered with success, and with status error and the error's detail when
\* it did not.
C17_OneRecordPerInvocation ==
  \A i \in 1..Len(ghist) :
    /\ Len(ghist[i].logged) = 1
    /\ ghist[i].status = 200 => ghist[i].logged[1].status = "success"
    /\ ghist[i].status # 200 =>
         /\ ghist[i].logged[1].status = "error"
         /\ ghist[i].logged[1].error_message # NULL

\* C18 (order-triggered cache invalidation): no step of a processOrder
\* invocation changes the cached menu, and the step on which an invocation
\* returns with isNew = true leaves the dashboard aggregate uncached.
C18_OrderInvalidatesDashboardOnly ==
  [][\A p \in Procs :
       (pc'[p] # pc[p] \/ loc'[p] # loc[p]) =>
         /\ cache'.menu = cache.menu
         /\ (pc'[p] = "idle" /\ hist'[Len(hist')].ok /\ hist'[Len(hist')].isNew)
              => cache'.stats = NULL]_vars

\* a new order was stored while the menu and the dashboard aggregate were
\* cached: the aggregate is gone, the menu is still cached
C18_NewOrderWithCachedMenu ==
  /\ hist # <<>>
  /\ hist[Len(hist)].ok
  /\ hist[Len(hist)].isNew
  /\ \A p \in Procs : pc[p] = "idle"
  /\ cache.menu = Obj(MenuV3)
  /\ cache.stats = NULL
  /\ ghist # <<>>

-----------------------------------------------------------------------------
(* Option groups across syncs                                              *)

RECURSIVE Concat(_)
\* the concatenation of a sequence of sequences
Concat(ss) == IF ss = <<>> THEN <<>> ELSE Head(ss) \o Concat(Tail(ss))

\* the option groups a snapshot references, in the order syncMenu processes
\* them: per category its items (per item its sizes' groups, then its own),
\* then the category's own groups
ItemReferences(item) ==
  Concat([i \in 1..Len(item.sizes) |-> item.sizes[i].groups]) \o item.groups

CategoryReferences(category) ==
  Concat([i \in 1..Len(category.items) |-> ItemReferences(category.items[i])])
    \o category.groups

GroupReferences(menuData) ==
  Concat([i \in 1..Len(menuData.categories) |-> CategoryReferences(menuData.categories[i])])

\* the last reference of a snapshot to the group with external id gid
LastReference(menuData, gid) ==
  LET refs == SelectSeq(GroupReferences(menuData), LAMBDA g : g.id = gid)
  IN refs[Len(refs)]

\* the internal ids under which external id gid was stored when the last sync started
InternalIds0(gid) == {i \in 1..Len(LastSync.groups0) : LastSync.groups0[i] = gid}

\* C21 (existing option group update): after a successful sync, every option
\* group its snapshot references that was stored before the sync is stored
\* under the internal ids it had, and its name, required, allow_quantity,
\* force_min and force_max are those of the snapshot's last reference to it.
C21_ExistingGroupUpdated ==
  Synced =>
    \A gid \in ExternalIds(GroupReferences(LastSync.menuData)) \cap LastSync.before :
      /\ {row.id : row \in OptionGroupsByGloriaFoodId(gid)} = InternalIds0(gid)
      /\ \A row \in OptionGroupsByGloriaFoodId(gid) :
           LET group == LastReference(LastSync.menuData, gid)
           IN /\ row.name = group.name
              /\ row.required = Flag(Bool(group.required))
              /\ row.allow_quantity = Flag(Bool(group.allow_quantity))
              /\ row.force_min = group.force_min
              /\ row.force_max = group.force_max

\* a successful sync of MenuV2 over stored groups 8 and 9: group 9 carries the
\* edited fields, group 8 those of its last reference and not of its first
C21_StoredGroupsEdited ==
  /\ Synced
  /\ LastSync.menuData = MenuV2
  /\ {8, 9} \subseteq LastSync.before
  /\ \E row \in OptionGroupsByGloriaFoodId(9) : row.name = "Extras" /\ row.force_max = 3
  /\ \E row \in OptionGroupsByGloriaFoodId(8) : row.name = "Sauces" /\ row.force_max = 1

\* C22 (association idempotence): after a successful sync no two association
\* rows join the same item or size to the same option group, also when the
\* snapshot lists a group more than once under one item or size.
C22_OneAssociationPerPair ==
  Synced =>
    \A r, q \in Rows(db.menu_item_option_groups) :
      (/\ r.item_id = q.item_id
       /\ r.size_id = q.size_id
       /\ r.option_group_id = q.option_group_id) => r.id = q.id

-----------------------------------------------------------------------------
(* clearMenuData                                                           *)

\* C23 (rebuild delete completeness): on the step that completes
\* clearMenuData, the store is left without any category of the menu, any item
\* of those categories, any size of those items and any association row of
\* those items or of those sizes, as they were when clearMenuData started.
C23_ClearMenuDataComplete ==
  [][\A s \in Syncers :
       (AtMTask(s, "deleteCategories") /\ mpc'[s] = "run" /\ mloc'[s] # mloc[s]) =>
         LET gone == mloc[s].cleared0
         IN /\ \A r \in Rows(db'.menu_categories) :
                 r.menu_id # mloc[s].menuId /\ r.id \notin gone.categories
            /\ \A r \in Rows(db'.menu_items) :
                 r.category_id \notin gone.categories /\ r.id \notin gone.items
            /\ \A r \in Rows(db'.menu_item_sizes) :
                 r.item_id \notin gone.items /\ r.id \notin gone.sizes
            /\ \A r \in Rows(db'.menu_item_option_groups) :
                 /\ r.item_id \notin {Num(i) : i \in gone.items}
                 /\ r.size_id \notin {Num(i) : i \in gone.sizes}]_vars

\* clearMenuData has completed over a menu that had categories, items and
\* sizes, and the rebuild has not yet stored a category
C23_StoredMenuCleared ==
  \E s \in Syncers :
    /\ mpc[s] = "run"
    /\ mloc[s].cleared0.categories # {}
    /\ mloc[s].cleared0.items # {}
    /\ mloc[s].cleared0.sizes # {}
    /\ \A r \in Rows(db.menu_categories) : r.menu_id # mloc[s].menuId

\* C24 (rebuild preserves option groups): no step, of a successful or of a
\* failed sync, removes an option-group row or an option row, and every
\* option-group row keeps its external id: the stored external ids only grow.
C24_OptionGroupsNeverDeleted ==
  [][/\ \A r \in Rows(db.menu_option_groups) :
          \E q \in Rows(db'.menu_option_groups) :
            q.id = r.id /\ q.gloriafood_id = r.gloriafood_id
     /\ Rows(db.menu_options) \subseteq Rows(db'.menu_options)]_vars

\* a sync has returned whose snapshot no longer references a group that was
\* stored when it started, after clearing a menu that had categories: the
\* group and its options are still stored
C24_UnreferencedGroupKept ==
  /\ mpc["manual"] = "idle"
  /\ mhist # <<>>
  /\ LastSync.ok
  /\ LastSync.listed0 # <<>>
  /\ \E gid \in LastSync.before \ ExternalIds(GroupReferences(LastSync.menuData)) :
       \E g \in OptionGroupsByGloriaFoodId(gid) :
         \E o \in Rows(db.menu_options) : o.option_group_id = g.id

\* C25 (option-group find-or-create race): when the manual and the scheduled
\* sync have both finished, each stored option-group external id has exactly
\* one row, with one row per option of the group.
C25_OneGroupRowPerExternalId ==
  (mhist # <<>> /\ \A s \in Syncers : mpc[s] = "idle") =>
    \A g, h \in Rows(db.menu_option_groups) :
      g.gloriafood_id = h.gloriafood_id => g.id = h.id

-----------------------------------------------------------------------------
(* Clients, addresses and restaurants                                      *)

\* C26 (client merge, marketing consent): after a new order of a stored
\* client was ingested whose payload carries no marketing-consent value, the
\* client's stored marketing_consent is the value stored before.
C26_AbsentConsentKept ==
  (pc["push"] = "idle" /\ hist # <<>>)
    => LET h == hist[Len(hist)]
           stored == h.client0.v
       IN (/\ h.fresh
           /\ h.ok
           /\ h.client0 # NULL
           /\ h.order.client_marketing_consent.t \in {"undefined", "null"})
            => db.clients[stored.id].marketing_consent = stored.marketing_consent

\* C27 (client order_count follows the payload): after a new order that
\* carries a client order count was ingested, the stored order_count of its
\* client is that count, whether the ingest created the client or found it.
C27_OrderCountIsPayloadCount ==
  (pc["push"] = "idle" /\ hist # <<>>)
    => LET h == hist[Len(hist)]
       IN (/\ h.fresh
           /\ h.ok
           /\ ~Falsy(ClientGloriaFoodId(h.order))
           /\ h.order.client_order_count.t = "number")
            => \A row \in ClientsByGloriaFoodId(ClientGloriaFoodId(h.order).v) :
                 row.order_count = h.order.client_order_count.v

\* C28 (address dedup invariant): in every reachable state, whatever the
\* sequence or interleaving of ingests, no client has two address rows with
\* the same full address.
C28_OneRowPerClientAddress ==
  \A r, q \in Rows(db.client_addresses) :
    (r.client_id = q.client_id /\ r.full_address = q.full_address) => r.id = q.id

\* C29 (restaurant identity is the restaurant key): after any sequence of
\* ingests each restaurant key has one row, every stored order references the
\* row of its payload's key, and the INSERT of a restaurant row for a key that
\* is not stored is never rejected over the external restaurant id it carries
\* (an ingest ends at that INSERT only when the store itself fails).
C29_RestaurantIdentityIsKey ==
  /\ \A r, q \in Rows(db.restaurants) :
       r.restaurant_key = q.restaurant_key => r.id = q.id
  /\ \A o \in Rows(db.orders) :
       \E r \in RestaurantsByKey(o.raw_payload.restaurant_key) : r.id = o.restaurant_id
  /\ \A i \in 1..Len(hist) :
       hist[i].at = "insertRestaurant" => hist[i].error = "store failure"

\* C30 (client / restaurant find-or-create race): an ingest of a new order
\* whose INSERT of the client, or of the restaurant for its key, comes second
\* after a concurrent ingest's is not failed by it: it returns, and its order
\* is stored.
C30_LosingInsertIsNoError ==
  \A i \in 1..Len(hist) :
    LET h == hist[i]
    IN (/\ h.fresh
        /\ \/ h.at = "insertClient"
           \/ h.at = "insertRestaurant" /\ RestaurantsByKey(h.order.restaurant_key) # {})
         => h.ok /\ KeyRows(h.order) # {}

-----------------------------------------------------------------------------
(* The stored order and its fan-out                                        *)

\* the positions of a payload's line items that carry the tag
TaggedItems(order, tag) == {i \in 1..Len(order.items) : order.items[i].type = tag}

\* a stored amount is the total price of the payload's line item with the
\* tag (the first one, should there be several), and 0 without such an item
IsTaggedTotal(amount, order, tag) ==
  IF TaggedItems(order, tag) = {} THEN amount = 0
  ELSE \E i \in TaggedItems(order, tag) :
         /\ \A j \in TaggedItems(order, tag) : i <= j
         /\ amount = order.items[i].total_item_price

\* a stored payment method is the payload's field, NULL when the field is absent
IsPaymentField(stored, field) ==
  IF field.t = "string" /\ field.v # "" THEN stored = field ELSE stored = NULL

\* C31 (derived money fields): every stored order has as tip amount the total
\* price of its payload's line item tagged tip and as delivery fee that of the
\* item tagged delivery_fee, 0 when there is no such item, and as payment
\* method the payload's delivery payment when its type is delivery and the
\* pickup payment otherwise.
C31_DerivedMoneyFields ==
  \A o \in Rows(db.orders) :
    LET order == o.raw_payload
    IN /\ IsTaggedTotal(o.tip_amount, order, "tip")
       /\ IsTaggedTotal(o.delivery_fee, order, "delivery_fee")
       /\ IsPaymentField(o.payment_method,
                         IF order.type = "delivery" THEN order.delivery_payment
                         ELSE order.pickup_payment)

\* a delivery order with a tip and a delivery fee and a pickup order with
\* neither are stored
C31_TippedDeliveryAndPlainPickup ==
  /\ \E o \in Rows(db.orders) :
       /\ o.raw_payload = OrderC
       /\ o.tip_amount = 2 /\ o.delivery_fee = 3 /\ o.payment_method = Str("ONLINE")
  /\ \E o \in Rows(db.orders) :
       /\ o.raw_payload = OrderB
       /\ o.tip_amount = 0 /\ o.delivery_fee = 0 /\ o.payment_method = Str("CASH")

\* the number of elements of an optional array of a payload
Count(x) == IF x.t = "array" THEN Len(x.v) ELSE 0

\* the rows stored under an order, in the order they were inserted
ItemRows(orderId) == SelectSeq(db.order_items, LAMBDA r : r.order_id = orderId)
OptionRows(itemId) == SelectSeq(db.order_item_options, LAMBDA r : r.order_item_id = itemId)
CouponRows(orderId) == SelectSeq(db.order_coupons, LAMBDA r : r.order_id = orderId)
TaxRows(orderId) == SelectSeq(db.order_taxes, LAMBDA r : r.order_id = orderId)
BillingRows(orderId) == SelectSeq(db.billing_details, LAMBDA r : r.order_id = orderId)

\* the rows stored under orderId are those of the payload's fan-out
HasFanOutOf(orderId, order) ==
  /\ Len(ItemRows(orderId)) = Len(order.items)
  /\ \A i \in 1..Len(order.items) :
       LET row == ItemRows(orderId)[i]
           item == order.items[i]
       IN /\ row.name = item.name
          /\ row.type = item.type
          /\ row.total_price = item.total_item_price
          /\ Len(OptionRows(row.id)) = Count(item.options)
          /\ \A j \in 1..Count(item.options) :
               /\ OptionRows(row.id)[j].name = item.options.v[j].name
               /\ OptionRows(row.id)[j].type = item.options.v[j].type
  /\ Len(CouponRows(orderId)) = Count(order.coupons)
  /\ \A k \in 1..Count(order.coupons) :
       CouponRows(orderId)[k].coupon_code = order.coupons.v[k]
  /\ Len(TaxRows(orderId)) = Count(order.tax_list)
  /\ \A k \in 1..Count(order.tax_list) : TaxRows(orderId)[k].type = order.tax_list.v[k].type
  /\ Len(BillingRows(orderId)) = IF Falsy(order.billing_details) THEN 0 ELSE 1

\* C32 (order fan-out completeness): once processOrder has returned
\* isNew = true for an order, the store holds under it one item row per line
\* item of the payload, in payload order, one option row per option of each
\* item, one coupon row per coupon, one tax row per tax-list entry, and one
\* billing-details row if the payload has billing details and none otherwise;
\* and in every state an order has at most one billing-details row.
C32_FanOutComplete ==
  /\ \A i \in 1..Len(hist) :
       (hist[i].ok /\ hist[i].isNew) => HasFanOutOf(hist[i].orderId, hist[i].order)
  /\ \A o \in Rows(db.orders) : Len(BillingRows(o.id)) <= 1

\* an order with an item with an option, a coupon, a tax line and billing
\* details was stored after an order with none of these
C32_RichOrderAfterPlainOrder ==
  /\ Len(hist) = 2
  /\ hist[1].ok /\ hist[1].isNew /\ hist[1].order = OrderB
  /\ hist[2].ok /\ hist[2].isNew /\ hist[2].order = OrderC
  /\ Len(db.order_item_options) = 1
  /\ Len(db.billing_details) = 1

\* C33 (pos-system id default): an order whose payload carries no pos-system
\* id is stored with pos-system id 0, and it is the same order as a payload
\* with the same external id and pos-system id 0: when one is ingested right
\* after the other was stored, the second ingest returns the first one's row
\* with isNew = false and one row carries (external id, 0).
C33_AbsentPosIsZero ==
  /\ \A o \in Rows(db.orders) :
       o.raw_payload.pos_system_id = UNDEF => o.pos_system_id = 0
  /\ \A i \in 1..(Len(hist) - 1) :
       LET first == hist[i]
           second == hist[i + 1]
       IN (/\ first.ok
           /\ first.order.id = second.order.id
           /\ {first.order.pos_system_id, second.order.pos_system_id} = {UNDEF, Num(0)})
            => /\ second.ok
               /\ ~second.isNew
               /\ second.orderId = first.orderId
               /\ Cardinality({o \in Rows(db.orders) :
                     o.gloriafood_id = first.order.id /\ o.pos_system_id = 0}) = 1

\* a payload without pos-system id was stored as new and the payload with the
\* same external id and pos-system id 0 was ingested after it
C33_ExplicitZeroAfterAbsent ==
  /\ Len(hist) = 2
  /\ hist[1].order = OrderA /\ hist[1].ok /\ hist[1].isNew
  /\ hist[2].order = OrderC /\ hist[2].ok
  /\ Len(db.orders) = 1

-----------------------------------------------------------------------------
(* The phases of syncMenu                                                  *)

\* the snapshots the platform answers with in the specification of progress
LiveSnapshots == {MenuV1, MenuV3}

\* One sync at a time with store failures, where every fetch and every store
\* call of a running sync returns
NextSyncLive ==
  \/ StartSync("manual", MaxSyncs)
  \/ FetchMenuFrom("manual", LiveSnapshots)
  \/ AfterFetchStep("manual")
  \/ SyncStoreFailure("manual")
  \/ SyncLogFailure("manual")

SpecSyncLive ==
  /\ InitMenu
  /\ [][NextSyncLive]_vars
  /\ WF_vars(FetchMenuFrom("manual", LiveSnapshots) \/ AfterFetchStep("manual"))

\* the statements of syncMenu after the loop over the categories
FinalizingTasks == {"stamp", "cachePut", "logSuccess"}

\* the phase sync s is in: Fetching is the fetchMenu call, Reconciling is
\* getOrCreateMenu, Rebuilding is clearMenuData and the categories, Finalizing
\* is the timestamp, the cache write and the success event, Failed is the
\* catch block
Phase(s) ==
  CASE mpc[s] = "idle" -> "Idle"
    [] mpc[s] = "fetch" -> "Fetching"
    [] mpc[s] \in {"selectMenu", "updateMenu", "insertMenu"} -> "Reconciling"
    [] mpc[s] = "run" /\ MTask(s).op \notin FinalizingTasks -> "Rebuilding"
    [] mpc[s] = "run" /\ MTask(s).op \in FinalizingTasks -> "Finalizing"
    [] mpc[s] = "catch" -> "Failed"

\* the phase changes of the state machine; leaving Finalizing ends the
\* invocation as Done, leaving Failed ends it as failed
PhaseChanges ==
  {<<"Idle", "Fetching">>,
   <<"Fetching", "Reconciling">>, <<"Fetching", "Failed">>,
   <<"Reconciling", "Rebuilding">>, <<"Reconciling", "Failed">>,
   <<"Rebuilding", "Finalizing">>, <<"Rebuilding", "Failed">>,
   <<"Finalizing", "Idle">>, <<"Finalizing", "Failed">>,
   <<"Failed", "Idle">>}

\* C34 (sync phase order and termination): every step of a sync stays in its
\* phase or makes one of the changes Fetching, Reconciling, Rebuilding,
\* Finalizing in that order, or the change to Failed; a sync that leaves
\* Finalizing ends with one successful result and one that leaves Failed with
\* one failed result; no step taken before the fetch has succeeded or in
\* Failed changes a menu table; and, every fetch and store call returning,
\* a started sync eventually ends.
C34_PhasesInOrderAndTerminates ==
  /\ [][\A s \in Syncers :
         /\ Phase(s)' # Phase(s) => <<Phase(s), Phase(s)'>> \in PhaseChanges
         /\ (Phase(s) # "Idle" /\ Phase(s)' = "Idle") =>
              /\ Len(mhist') = Len(mhist) + 1 \/ Len(mhist) = HistLen
              /\ LastSync'.ok = (Phase(s) = "Finalizing")
         /\ (Phase(s) \in {"Fetching", "Failed"} /\ mloc'[s] # mloc[s]) =>
              MenuTables' = MenuTables]_vars
  /\ \A s \in Syncers : (Phase(s) # "Idle") ~> (Phase(s) = "Idle")

\* a sync is in its catch block after a failure in Rebuilding, with some
\* categories of the snapshot stored, after an earlier sync that ended as Done
C34_FailedWhileRebuilding ==
  /\ Phase("manual") = "Failed"
  /\ mloc["manual"].error = "store failure"
  /\ mloc["manual"].stats.items > 0
  /\ mhist # <<>>
  /\ LastSync.ok

-----------------------------------------------------------------------------
(* The menu cache after a sync                                             *)

\* C35 (finalizing invalidates the menu cache): on the step on which a sync
\* returns successfully, the menu's sync timestamp is the one of this sync,
\* the cache holds no full-menu entry, and one success event was added.
C35_SyncLeavesNoCachedMenu ==
  [][\A s \in Syncers :
       (AtMTask(s, "logSuccess") /\ mpc'[s] = "idle") =>
         /\ db'.menus[mloc[s].menuId].synced_at = syncs
         /\ cache'.menu = NULL
         /\ Len(db'.webhook_logs) = Len(db.webhook_logs) + 1
         /\ db'.webhook_logs[Len(db'.webhook_logs)].status = "success"]_vars

-----------------------------------------------------------------------------
(* Cached reads that overlap an ingest                                     *)

\* An ingest in flight together with dashboard reads: a read's cache write
\* is a statement of its own, after the queries
NextReadRace ==
  \/ \E order \in Orders : Start("push", order, MaxRacing)
  \/ ProcessOrderStep("push")
  \/ GetDashboardStatsStep

SpecReadRace == Init /\ [][NextReadRace]_vars

\* C36 (no lost invalidation under concurrent reads): once the ingest and
\* the dashboard reads that overlapped it have finished, a cached dashboard
\* aggregate is the aggregate of the store as it is.
C36_NoStaleAggregateLeft ==
  (pc["push"] = "idle" /\ reader.at = "idle") =>
    (cache.stats = NULL \/ cache.stats = Obj(DashboardStats))

-----------------------------------------------------------------------------
(* Errors of a sync                                                        *)

\* C37 (sync error propagation): a sync that failed with error E ends with E
\* as the error its caller receives, and with one event of status error and
\* E's message added to the event log, also when recording the event fails.
C37_CallerSeesOriginalError ==
  [][\A s \in Syncers :
       (mpc[s] = "catch" /\ mpc'[s] = "idle") =>
         /\ ~LastSync'.ok
         /\ LastSync'.error = mloc[s].error
         /\ Len(db'.webhook_logs) = Len(db.webhook_logs) + 1
         /\ db'.webhook_logs[Len(db'.webhook_logs)].status = "error"
         /\ db'.webhook_logs[Len(db'.webhook_logs)].error_message = Str(mloc[s].error)]_vars

\* C38 (cache hit equals store rebuild): in every state in which the
\* full-menu cache entry is present and no sync is in progress, the cached
\* value is the menu tree getFullMenu builds from the store on a cache miss.
C38_CachedMenuIsStoredMenu ==
  (cache.menu # NULL /\ \A s \in Syncers : mpc[s] = "idle") =>
    cache.menu = FullMenuFromStore

-----------------------------------------------------------------------------
(* Batches and results                                                     *)

\* C39 (batch failure prefix): when processOrder threw on the k-th order of a
\* pushed or pulled batch, the k-1 orders before it have their results, each
\* naming a stored order of that external id, with its full fan-out when it
\* was new; no order after the k-th was processed; the response carries the
\* error message and no result list; and a pushed batch has logged exactly
\* one event, with status error and that message.
C39_BatchFailurePrefix ==
  \A i \in 1..Len(ghist) :
    LET g == ghist[i]
        k == Len(g.results) + 1
    IN (g.status = 500 /\ g.calls > 0) =>
         /\ g.calls = k
         /\ k <= Len(g.payload)
         /\ \A j \in 1..(k - 1) :
              /\ g.results[j].gloriafood_id = g.payload[j].id
              /\ \E o \in KeyRows(g.payload[j]) : o.id = g.results[j].internal_id
              /\ g.results[j].is_new => HasFanOutOf(g.results[j].internal_id, g.payload[j])
         /\ g.error # ""
         /\ g.data = UNDEF
         /\ g.source = "push" =>
              /\ Len(g.logged) = 1
              /\ g.logged[1].status = "error"
              /\ g.logged[1].error_message = Str(g.error)

\* a pushed batch of three orders failed on its second order after its first
\* was stored as new
C39_PushedBatchFailedOnSecond ==
  \E i \in 1..Len(ghist) :
    /\ ghist[i].source = "push"
    /\ ghist[i].status = 500
    /\ ghist[i].payload = <<OrderC, OrderE, OrderA>>
    /\ Len(ghist[i].results) = 1
    /\ ghist[i].results[1].is_new
    /\ KeyRows(OrderE) = {}

\* C40 (result / row correspondence): when the processOrder calls made so
\* far, in sequence or interleaved, have all returned normally, the store
\* holds as many order rows as calls returned isNew = true, and every
\* returned internal id is that of a stored order with the payload's key.
C40_ResultsMatchRows ==
  (/\ \A p \in Procs : pc[p] = "idle"
   /\ Len(hist) = calls
   /\ \A i \in 1..Len(hist) : hist[i].ok)
    => /\ Len(db.orders) = Cardinality({i \in 1..Len(hist) : hist[i].isNew})
       /\ \A i \in 1..Len(hist) :
            \E o \in KeyRows(hist[i].order) : o.id = hist[i].orderId

\* two calls have returned, the push with a new order and the pull with the
\* stored order of the same key
C40_NewThenKnown ==
  /\ \A p \in Procs : pc[p] = "idle"
  /\ Len(hist) = 2
  /\ hist[1].proc = "push" /\ hist[1].ok /\ hist[1].isNew
  /\ hist[2].proc = "pull" /\ hist[2].ok /\ ~hist[2].isNew
  /\ hist[2].orderId = hist[1].orderId
  /\ Len(db.orders) = 1

=============================================================================
